---- MODULE Spec2Model ----
(***************************************************************************)
(* State-machine model of MammonVaultV2 (contracts/v2/MammonVaultV2.sol).  *)
(*                                                                         *)
(* Conventions                                                             *)
(*  - Solidity arrays are 0-based, TLA+ sequences 1-based: slot k of the   *)
(*    model is index k-1 of the contract ("index 0" is slot 1).            *)
(*  - The 18-decimal fixed point unit ONE and the constants expressed in   *)
(*    it are scaled down (ONE = 10^4) so that every product stays inside   *)
(*    the integers of the model checker; all divisions truncate as in the  *)
(*    contract.                                                            *)
(*  - A handler is an operator from the state record and its inputs to    *)
(*    the record after the call: err = "none" and the new state when the   *)
(*    call succeeds, the revert reason otherwise.  A reverting call is not *)
(*    a transition; lastCall records the last successful call.             *)
(*  - One block is mined per timestamp: block.number is modelled by now.   *)
(*  - Tokens are plain ERC-20 tokens (no fee on transfer) and the owner    *)
(*    has approved the vault.                                              *)
(***************************************************************************)
EXTENDS Integers, Sequences, FiniteSets, TLC

\* ------------------------------------------------------------------ bounds
MaxTime == 1000
MaxCalls == 3
TimeSteps == {500}

\* --------------------------------------------------------------- constants
ONE == 10000
MIN_WEIGHT == 100
MINIMUM_WEIGHT_CHANGE_DURATION == 14400
MAXIMUM_SWAP_FEE_PERCENT_CHANGE == 50
SWAP_FEE_COOLDOWN_PERIOD == 60
\* The pool's own limits of the swap fee (0.95 and the smallest positive fee).
MAX_SWAP_FEE == 9500
MIN_SWAP_FEE == 1
MAX_WEIGHT_CHANGE_RATIO == 10
MAX_MANAGEMENT_FEE == 1
TypeUint256Max == 2147483647
TypeUint32Max == 1000000

ZERO_ADDRESS == "0x0"
Vault == "vault"
Addrs == {"owner", "g1", "g2"}
Holders == Addrs \cup {Vault}

numPoolTokens == 2
numYieldTokens == 1
numTokens == numPoolTokens + numYieldTokens
numeraireAssetIndex == 1
createdAt == 0
\* Index in the pool of the asset each yield slot wraps, and whether the yield
\* token itself may be handed to the owner on withdrawal.
underlyingIndexes == [k \in (numPoolTokens + 1)..numTokens |-> 2]
isWithdrawable == [k \in (numPoolTokens + 1)..numTokens |-> FALSE]
\* 10 ** decimals() of the oracles (two decimals).
oracleUnit == 100
\* Policy thresholds of the constructor, in token units / units of ONE.
minReliableVaultValue == 50
minSignificantDepositValue == 150
minYieldActionThreshold == 10
maxOracleSpotDivergence == 11000
maxOracleDelay == 500

PoolSlots == 1..numPoolTokens
YieldSlots == (numPoolTokens + 1)..numTokens
Slots == 1..numTokens

\* ----------------------------------------------------------------- helpers
Min(a, b) == IF a < b THEN a ELSE b
\* Faulty variant of Max: the second argument is returned unconditionally.
Mutant_Max(a, b) == b
Max(a, b) == IF a > b THEN a ELSE b

RECURSIVE SeqSum(_)
SeqSum(s) == IF s = <<>> THEN 0 ELSE Head(s) + SeqSum(Tail(s))

Zeros(n) == [i \in 1..n |-> 0]

VARIABLES
    now,                \* block.timestamp
    initialized,
    finalized,
    oraclesEnabled,
    guardian,
    owner,              \* Ownable._owner
    pendingOwner,
    lastFeeCheckpoint,
    guardiansFee,       \* address -> fee vector, <<>> when the array has length 0
    guardiansFeeTotal,
    lastSwapFeeCheckpoint,
    managementFee,      \* immutable, chosen at construction
    minFeeDuration,     \* immutable, chosen at construction
    bal,                \* ERC-20 balances: holder -> slot -> amount
    poolBal,            \* bVault.getPoolTokens: balances of the pool tokens in the pool
    weightStart,        \* pool weight schedule: weights at startTime
    weightEnd,          \*                       weights at endTime
    weightT0,           \*                       startTime
    weightT1,           \*                       endTime
    swapEnabled,        \* pool.getSwapEnabled()
    swapFee,            \* pool.getSwapFeePercentage()
    oracleAnswer,        \* latestRoundData().answer per pool slot, in oracle units
    oracleUpdatedAt,    \* latestRoundData().updatedAt per pool slot
    yAssets,            \* totalAssets() of the wrapper of each yield slot
    paused,             \* ERC4626Mock.paused of each wrapper
    useMaxDepositAmount,    \* ERC4626Mock: the deposit cap is in force
    maxDepositAmount,       \*              the deposit cap
    useMaxWithdrawalAmount, \*              the withdrawal cap is in force
    maxWithdrawalAmount,    \*              the withdrawal cap
    lastChangeBlock,    \* bVault.getPoolTokens: block of the last balance change
    lastCall,           \* last successful call: operation, caller, event arguments
    chargedTime,        \* history: sum of the fee indexes of all fee accruals
    guardianSince,      \* history: time at which the current guardian was appointed
    initializedAt,      \* history: time of the successful initialDeposit
    nCalls,             \* history: number of successful calls so far
    guardiansValues,    \* GuardianWhitelist.guardians: EnumerableSet _values
    guardiansIndexes,   \*   EnumerableSet _indexes: position + 1, 0 when absent
    listed,             \* history: addresses added and not removed since
    whitelistCall,      \* last successful call of the whitelist
    adjustment          \* calcAdjustmentAmounts on its own: arguments and result

vaultVars == <<now, initialized, finalized, oraclesEnabled, guardian, owner,
          pendingOwner, lastFeeCheckpoint, guardiansFee, guardiansFeeTotal,
          lastSwapFeeCheckpoint, managementFee, minFeeDuration, bal, poolBal,
          weightStart, weightEnd, weightT0, weightT1, swapEnabled, swapFee,
          oracleAnswer, oracleUpdatedAt, yAssets, paused, useMaxDepositAmount,
          maxDepositAmount, useMaxWithdrawalAmount, maxWithdrawalAmount,
          lastChangeBlock, lastCall, chargedTime,
          guardianSince, initializedAt, nCalls>>

whitelistVars == <<guardiansValues, guardiansIndexes, listed, whitelistCall>>

vars == <<vaultVars, whitelistVars, adjustment>>

\* The state as one record, so that a handler is a function from the state
\* and its inputs to the state after it (err = "none") or to an error.
S == [now |-> now, initialized |-> initialized, finalized |-> finalized,
      oraclesEnabled |-> oraclesEnabled, guardian |-> guardian, owner |-> owner,
      pendingOwner |-> pendingOwner,
      lastFeeCheckpoint |-> lastFeeCheckpoint, guardiansFee |-> guardiansFee,
      guardiansFeeTotal |-> guardiansFeeTotal,
      lastSwapFeeCheckpoint |-> lastSwapFeeCheckpoint,
      managementFee |-> managementFee, minFeeDuration |-> minFeeDuration,
      bal |-> bal, poolBal |-> poolBal,
      weightStart |-> weightStart, weightEnd |-> weightEnd,
      weightT0 |-> weightT0, weightT1 |-> weightT1,
      swapEnabled |-> swapEnabled, swapFee |-> swapFee,
      oracleAnswer |-> oracleAnswer, oracleUpdatedAt |-> oracleUpdatedAt,
      yAssets |-> yAssets, paused |-> paused,
      useMaxDepositAmount |-> useMaxDepositAmount,
      maxDepositAmount |-> maxDepositAmount,
      useMaxWithdrawalAmount |-> useMaxWithdrawalAmount,
      maxWithdrawalAmount |-> maxWithdrawalAmount,
      lastChangeBlock |-> lastChangeBlock,
      chargedTime |-> chargedTime,
      guardianSince |-> guardianSince, initializedAt |-> initializedAt,
      status |-> "NOT_ENTERED", err |-> "none", event |-> <<>>]

Fail(w, e) == [w EXCEPT !.err = e]
Ok(w) == w.err = "none"

\* The state after a successful call `op` by `caller` that ended in record r.
Commit(r0, op, caller) ==
    \E r \in {r0} :
        /\ r.err = "none"
        /\ now' = r.now
        /\ initialized' = r.initialized
        /\ finalized' = r.finalized
        /\ oraclesEnabled' = r.oraclesEnabled
        /\ guardian' = r.guardian
        /\ owner' = r.owner
        /\ pendingOwner' = r.pendingOwner
        /\ lastFeeCheckpoint' = r.lastFeeCheckpoint
        /\ guardiansFee' = r.guardiansFee
        /\ guardiansFeeTotal' = r.guardiansFeeTotal
        /\ lastSwapFeeCheckpoint' = r.lastSwapFeeCheckpoint
        /\ managementFee' = r.managementFee
        /\ minFeeDuration' = r.minFeeDuration
        /\ bal' = r.bal
        /\ poolBal' = r.poolBal
        /\ weightStart' = r.weightStart
        /\ weightEnd' = r.weightEnd
        /\ weightT0' = r.weightT0
        /\ weightT1' = r.weightT1
        /\ swapEnabled' = r.swapEnabled
        /\ swapFee' = r.swapFee
        /\ oracleAnswer' = r.oracleAnswer
        /\ oracleUpdatedAt' = r.oracleUpdatedAt
        /\ yAssets' = r.yAssets
        /\ paused' = r.paused
        /\ useMaxDepositAmount' = r.useMaxDepositAmount
        /\ maxDepositAmount' = r.maxDepositAmount
        /\ useMaxWithdrawalAmount' = r.useMaxWithdrawalAmount
        /\ maxWithdrawalAmount' = r.maxWithdrawalAmount
        /\ lastChangeBlock' = r.lastChangeBlock
        /\ chargedTime' = r.chargedTime
        /\ guardianSince' = r.guardianSince
        /\ initializedAt' = r.initializedAt
        /\ lastCall' = [op |-> op, caller |-> caller, event |-> r.event]
        /\ nCalls' = nCalls + 1
        /\ UNCHANGED <<whitelistVars, adjustment>>


\* ------------------------------------------------------------------- ERC-20
\* token.safeTransfer / safeTransferFrom of `amt` of the token of `slot`.
transfer(w, slot, from, to, amt) ==
    IF w.bal[from][slot] < amt
    THEN Fail(w, "ERC20: transfer amount exceeds balance")
    ELSE IF from = to THEN w
    ELSE [w EXCEPT !.bal[from][slot] = @ - amt, !.bal[to][slot] = @ + amt]

\* --------------------------------------------------- Balancer pool and vault
\* Faulty variant of interpolateValue: the end value applies at once.
Mutant_interpolateValue(w, startValue, endValue) == endValue

\* GradualValueChange of the managed pool: the weight of one token at w.now.
interpolateValue(w, startValue, endValue) ==
    IF w.now >= w.weightT1 \/ startValue = endValue THEN endValue
    ELSE IF w.now <= w.weightT0 THEN startValue
    ELSE LET pct == ((w.now - w.weightT0) * ONE) \div (w.weightT1 - w.weightT0)
         IN IF startValue > endValue
            THEN startValue - ((pct * (startValue - endValue)) \div ONE)
            ELSE startValue + ((pct * (endValue - startValue)) \div ONE)

\* pool.getNormalizedWeights()
poolGetNormalizedWeights(w) ==
    [i \in PoolSlots |-> interpolateValue(w, w.weightStart[i], w.weightEnd[i])]

\* pool.updateWeightsGradually(startTime, endTime, tokens, endWeights): the
\* pool rejects a weight below its minimum and a vector not summing to ONE.
poolUpdateWeightsGradually(w, startTime, endTime, endWeights) ==
    IF \E i \in PoolSlots : endWeights[i] < MIN_WEIGHT THEN Fail(w, "BAL#302")
    ELSE IF SeqSum(endWeights) # ONE THEN Fail(w, "BAL#308")
    ELSE [w EXCEPT !.weightStart = poolGetNormalizedWeights(w),
                   !.weightEnd = endWeights,
                   !.weightT0 = startTime, !.weightT1 = endTime]

\* withdrawFromPool: WITHDRAW moves cash to the managed balance and the tokens
\* to the vault contract, UPDATE then sets the managed balance to zero.
withdrawFromPool(w, amounts) ==
    IF \E i \in PoolSlots : amounts[i] > w.poolBal[i] THEN Fail(w, "BAL#001")
    ELSE [w EXCEPT !.poolBal = [i \in PoolSlots |-> w.poolBal[i] - amounts[i]],
                   !.lastChangeBlock = w.now,
                   !.bal[Vault] = [k \in Slots |->
                        IF k \in PoolSlots THEN w.bal[Vault][k] + amounts[k]
                        ELSE w.bal[Vault][k]]]

\* depositToPool: UPDATE sets the managed balance to `amounts`, DEPOSIT moves
\* it to cash and pulls the tokens from the vault contract.
depositToPool(w, amounts) ==
    IF \E i \in PoolSlots : amounts[i] > w.bal[Vault][i]
    THEN Fail(w, "ERC20: transfer amount exceeds balance")
    ELSE [w EXCEPT !.poolBal = [i \in PoolSlots |-> w.poolBal[i] + amounts[i]],
                   !.lastChangeBlock = w.now,
                   !.bal[Vault] = [k \in Slots |->
                        IF k \in PoolSlots THEN w.bal[Vault][k] - amounts[k]
                        ELSE w.bal[Vault][k]]]

getPoolHoldings(w) == w.poolBal

\* ------------------------------------------------------------------ holdings
\* getHoldings reverts (checked subtraction) when the vault holds less of a
\* yield token than the outstanding fees of its slot.
getHoldingsReverts(w) ==
    \E k \in YieldSlots : w.bal[Vault][k] < w.guardiansFeeTotal[k]

getHoldings(w) ==
    [k \in Slots |-> IF k \in PoolSlots THEN getPoolHoldings(w)[k]
                     ELSE w.bal[Vault][k] - w.guardiansFeeTotal[k]]

\* ---------------------------------------------------------------- fee engine
\* Faulty variants of getFeeIndex: the guaranteed top-up is added on every
\* accrual, or on none.
Mutant_getFeeIndexAlways(w, lockGuaranteedFee) ==
    LET feeIndex == IF w.now > w.lastFeeCheckpoint
                    THEN w.now - w.lastFeeCheckpoint ELSE 0
        minFeeCheckpoint == createdAt + w.minFeeDuration
    IN IF minFeeCheckpoint > w.now
       THEN feeIndex + (minFeeCheckpoint - w.now)
       ELSE feeIndex

Mutant_getFeeIndexNever(w, lockGuaranteedFee) ==
    IF w.now > w.lastFeeCheckpoint THEN w.now - w.lastFeeCheckpoint ELSE 0

getFeeIndex(w, lockGuaranteedFee) ==
    LET feeIndex == IF w.now > w.lastFeeCheckpoint
                    THEN w.now - w.lastFeeCheckpoint ELSE 0
        minFeeCheckpoint == createdAt + w.minFeeDuration
    IN IF lockGuaranteedFee /\ minFeeCheckpoint > w.now
       THEN feeIndex + (minFeeCheckpoint - w.now)
       ELSE feeIndex

\* The fee of one slot for one accrual.
calcFee(w, holdingOfSlot, feeIndex) ==
    (holdingOfSlot * feeIndex * w.managementFee) \div ONE

lockGuardianFees(w, lockGuaranteedFee) ==
    IF w.managementFee = 0 THEN w
    ELSE LET feeIndex == getFeeIndex(w, lockGuaranteedFee) IN
    IF feeIndex = 0 THEN w
    ELSE IF getHoldingsReverts(w) THEN Fail(w, "Panic(0x11)")
    ELSE LET holdings == getHoldings(w)
             newFees == [k \in Slots |-> calcFee(w, holdings[k], feeIndex)]
             w1 == [w EXCEPT !.lastFeeCheckpoint = w.now,
                             !.chargedTime = @ + feeIndex]
             w2 == withdrawFromPool(w1, [i \in PoolSlots |-> newFees[i]])
         IN IF ~Ok(w2) THEN w2
            ELSE [w2 EXCEPT
                    !.guardiansFee[w.guardian] =
                        [k \in Slots |-> w.guardiansFee[w.guardian][k] + newFees[k]],
                    !.guardiansFeeTotal =
                        [k \in Slots |-> w.guardiansFeeTotal[k] + newFees[k]]]


\* ------------------------------------------------------------------- oracles
\* Safe quotient: the callers test the divisor before they use the value.
Div(a, b) == IF b = 0 THEN 0 ELSE a \div b

\* getOraclePrices reverts on an answer <= 0 of a non-numeraire oracle.
getOraclePricesErr(w) ==
    IF \E i \in PoolSlots : i # numeraireAssetIndex /\ w.oracleAnswer[i] <= 0
    THEN "Mammon__OraclePriceIsInvalid" ELSE "none"

getOraclePrices(w) ==
    [i \in PoolSlots |->
        IF i = numeraireAssetIndex THEN ONE
        ELSE IF oracleUnit # ONE THEN (w.oracleAnswer[i] * ONE) \div oracleUnit
        ELSE w.oracleAnswer[i]]

getOracleUpdatedAt(w) ==
    [i \in PoolSlots |-> IF i = numeraireAssetIndex THEN 0 ELSE w.oracleUpdatedAt[i]]

\* Faulty variant of checkOracleStatus: the delay of the oracles is not
\* examined.
Mutant_checkOracleStatus(w, updatedAt) ==
    IF ~w.oraclesEnabled THEN "Mammon__OraclesAreDisabled" ELSE "none"

checkOracleStatus(w, updatedAt) ==
    IF ~w.oraclesEnabled THEN "Mammon__OraclesAreDisabled"
    ELSE IF \E i \in PoolSlots : i # numeraireAssetIndex /\ updatedAt[i] > w.now
    THEN "Panic(0x11)"
    ELSE IF \E i \in PoolSlots :
              i # numeraireAssetIndex /\ w.now - updatedAt[i] > maxOracleDelay
    THEN "Mammon__OracleIsDelayedBeyondMax"
    ELSE "none"

\* ---------------------------------------------------------- yield wrappers
\* ERC-4626 wrapper of yield slot k: its shares are the token of slot k, its
\* assets are w.yAssets[k] of the underlying pool token.
totalSupply(w, k) ==
    LET RECURSIVE Sum(_)
        Sum(hs) == IF hs = {} THEN 0
                   ELSE LET h == CHOOSE x \in hs : TRUE
                        IN w.bal[h][k] + Sum(hs \ {h})
    IN Sum(Holders)

convertToAssets(w, k, shares) ==
    LET supply == totalSupply(w, k)
    IN IF supply = 0 THEN shares ELSE (shares * w.yAssets[k]) \div supply

convertToShares(w, k, assets) ==
    LET supply == totalSupply(w, k)
    IN IF supply = 0 \/ w.yAssets[k] = 0 THEN assets
       ELSE (assets * supply) \div w.yAssets[k]

\* previewWithdraw rounds the shares to burn up.
previewWithdraw(w, k, assets) ==
    LET supply == totalSupply(w, k)
    IN IF supply = 0 \/ w.yAssets[k] = 0 THEN assets
       ELSE (assets * supply + w.yAssets[k] - 1) \div w.yAssets[k]

\* ERC4626Mock.maxDeposit and maxWithdraw revert while the wrapper is paused.
maxDepositErr(w, k) == IF w.paused[k] THEN "Vault is paused" ELSE "none"

maxDeposit(w, k, receiver) ==
    IF w.useMaxDepositAmount[k] THEN w.maxDepositAmount[k] ELSE TypeUint256Max

maxWithdrawErr(w, k) == IF w.paused[k] THEN "Vault is paused" ELSE "none"

maxWithdraw(w, k, holder) ==
    IF w.useMaxWithdrawalAmount[k] THEN w.maxWithdrawalAmount[k]
    ELSE convertToAssets(w, k, w.bal[holder][k])

\* ERC4626Mock.setMaxDepositAmount, setMaxWithdrawalAmount and pause of the
\* wrapper of slot k: anyone may call them.
setMaxDepositAmount(w, k, amount, use) ==
    [w EXCEPT !.maxDepositAmount[k] = amount, !.useMaxDepositAmount[k] = use]

setMaxWithdrawalAmount(w, k, amount, use) ==
    [w EXCEPT !.maxWithdrawalAmount[k] = amount, !.useMaxWithdrawalAmount[k] = use]

pause(w, k) == [w EXCEPT !.paused[k] = TRUE]

\* getUnderlyingBalances (reverts when getHoldingsReverts).
getUnderlyingBalances(w) ==
    [k \in YieldSlots |->
        convertToAssets(w, k, w.bal[Vault][k] - w.guardiansFeeTotal[k])]

getUnderlyingTotalBalances(w, poolHoldings, underlyingBalances) ==
    [i \in PoolSlots |->
        poolHoldings[i]
        + SeqSum([n \in 1..numYieldTokens |->
             IF underlyingIndexes[numPoolTokens + n] = i
             THEN underlyingBalances[numPoolTokens + n] ELSE 0])]

\* ------------------------------------------------------------ value, prices
getValue(amounts, prices) ==
    SeqSum([i \in PoolSlots |->
        IF i = numeraireAssetIndex THEN amounts[i]
        ELSE (amounts[i] * prices[i]) \div ONE])

\* calcSpotPrice divides by tokenWeightIn, tokenWeightOut and denom.
calcSpotPriceErr(tokenBalanceIn, tokenWeightIn, tokenBalanceOut, tokenWeightOut, fee) ==
    IF tokenWeightIn = 0 \/ tokenWeightOut = 0
       \/ (tokenBalanceOut * ONE) \div tokenWeightOut = 0
       \/ fee >= ONE
    THEN "Panic(0x12)" ELSE "none"

calcSpotPrice(tokenBalanceIn, tokenWeightIn, tokenBalanceOut, tokenWeightOut, fee) ==
    LET numer == Div(tokenBalanceIn * ONE, tokenWeightIn)
        denom == Div(tokenBalanceOut * ONE, tokenWeightOut)
        ratio == Div(numer * ONE, denom)
        scale == Div(ONE * ONE, ONE - fee)
    IN (ratio * scale) \div ONE

getSpotPricesErr(w, poolHoldings) ==
    LET weights == poolGetNormalizedWeights(w)
    IN IF \E i \in PoolSlots :
            /\ i # numeraireAssetIndex
            /\ calcSpotPriceErr(poolHoldings[numeraireAssetIndex],
                                weights[numeraireAssetIndex],
                                poolHoldings[i], weights[i], w.swapFee) # "none"
       THEN "Panic(0x12)" ELSE "none"

getSpotPrices(w, poolHoldings) ==
    LET weights == poolGetNormalizedWeights(w)
    IN [i \in PoolSlots |->
          IF i = numeraireAssetIndex THEN ONE
          ELSE calcSpotPrice(poolHoldings[numeraireAssetIndex],
                             weights[numeraireAssetIndex],
                             poolHoldings[i], weights[i], w.swapFee)]

\* --------------------------------------------------------- normalized weights
\* normalizeWeights divides by weightSum; the remainder goes to slot 1.
normalizeWeightsErr(weights, weightSum) ==
    IF weightSum = 0 THEN "Panic(0x12)" ELSE "none"

normalizeWeights(weights, weightSum) ==
    LET scaled == [i \in DOMAIN weights |-> Div(weights[i] * ONE, weightSum)]
        adjustedSum == SeqSum(scaled)
    IN [scaled EXCEPT ![1] = scaled[1] + ONE - adjustedSum]

\* The yield part of calcNormalizedWeights: the weight of each yield slot.
yieldWeights(value, oraclePrices, underlyingBalances) ==
    [k \in YieldSlots |->
        Div(underlyingBalances[k] * oraclePrices[underlyingIndexes[k]], value)]

calcNormalizedWeightsErr(w, value, oraclePrices, underlyingBalances) ==
    LET yw == yieldWeights(value, oraclePrices, underlyingBalances)
        ySum == SeqSum([n \in 1..numYieldTokens |-> yw[numPoolTokens + n]])
        poolWeights == poolGetNormalizedWeights(w)
        pw == [i \in PoolSlots |-> (poolWeights[i] * (ONE - ySum)) \div ONE]
        weightSum == ySum + SeqSum(pw)
    IN IF numYieldTokens > 0 /\ value = 0 THEN "Panic(0x12)"
       ELSE IF ySum > ONE THEN "Panic(0x11)"
       ELSE IF weightSum > ONE /\ pw[1] < weightSum - ONE THEN "Panic(0x11)"
       ELSE "none"

\* The two loops of calcNormalizedWeights: the weights before the correction
\* of slot 1.
calcWeightsBeforeCorrection(w, value, oraclePrices, underlyingBalances) ==
    LET yw == yieldWeights(value, oraclePrices, underlyingBalances)
        ySum == SeqSum([n \in 1..numYieldTokens |-> yw[numPoolTokens + n]])
        poolWeightSum == ONE - ySum
        poolWeights == poolGetNormalizedWeights(w)
    IN [k \in Slots |->
          IF k \in PoolSlots
          THEN (poolWeights[k] * poolWeightSum) \div ONE
          ELSE yw[k]]

\* Faulty variant of calcNormalizedWeights: the rounding remainder is dropped.
Mutant_calcNormalizedWeights(w, value, oraclePrices, underlyingBalances) ==
    calcWeightsBeforeCorrection(w, value, oraclePrices, underlyingBalances)

calcNormalizedWeights(w, value, oraclePrices, underlyingBalances) ==
    LET weights == calcWeightsBeforeCorrection(w, value, oraclePrices,
                                               underlyingBalances)
        weightSum == SeqSum(weights)
    IN IF weightSum > ONE
       THEN [weights EXCEPT ![1] = @ - (weightSum - ONE)]
       ELSE [weights EXCEPT ![1] = @ + (ONE - weightSum)]

\* getNormalizedWeights of the vault: the error it reverts with, or "none".
getNormalizedWeightsErr(w) ==
    IF getHoldingsReverts(w) THEN "Panic(0x11)"
    ELSE IF getOraclePricesErr(w) # "none" THEN getOraclePricesErr(w)
    ELSE LET ub == getUnderlyingBalances(w)
             prices == getOraclePrices(w)
             value == getValue(getUnderlyingTotalBalances(w, getPoolHoldings(w), ub),
                               prices)
         IN calcNormalizedWeightsErr(w, value, prices, ub)

getNormalizedWeights(w) ==
    LET ub == getUnderlyingBalances(w)
        prices == getOraclePrices(w)
        value == getValue(getUnderlyingTotalBalances(w, getPoolHoldings(w), ub),
                          prices)
    IN calcNormalizedWeights(w, value, prices, ub)

\* Faulty variant of updatePoolWeights: the pool's schedule is left as it is.
Mutant_updatePoolWeights(w, weights, weightSum) ==
    IF normalizeWeightsErr(weights, weightSum) # "none"
    THEN Fail(w, normalizeWeightsErr(weights, weightSum))
    ELSE w

updatePoolWeights(w, weights, weightSum) ==
    IF normalizeWeightsErr(weights, weightSum) # "none"
    THEN Fail(w, normalizeWeightsErr(weights, weightSum))
    ELSE poolUpdateWeightsGradually(w, w.now, w.now,
                                    normalizeWeights(weights, weightSum))

\* ---------------------------------------------------------------- modifiers
\* Each returns the error the modifier raises, or "none".
\* ReentrancyGuard.nonReentrant: the lock is taken for the whole call.
nonReentrant(w) ==
    IF w.status = "ENTERED" THEN "ReentrancyGuard: reentrant call" ELSE "none"

\* The state during a call that holds the lock.
entered(w) == [w EXCEPT !.status = "ENTERED"]

onlyOwner(w, caller) ==
    IF caller # w.owner THEN "Ownable: caller is not the owner" ELSE "none"

onlyGuardian(w, caller) ==
    IF caller # w.guardian THEN "Mammon__CallerIsNotGuardian" ELSE "none"

onlyOwnerOrGuardian(w, caller) ==
    IF caller # w.owner /\ caller # w.guardian
    THEN "Mammon__CallerIsNotOwnerOrGuardian" ELSE "none"

\* Faulty variant of a lifecycle modifier: the check is missing.
Mutant_noLifecycleCheck(w) == "none"

whenInitialized(w) ==
    IF ~w.initialized THEN "Mammon__VaultNotInitialized" ELSE "none"

whenNotFinalized(w) ==
    IF w.finalized THEN "Mammon__VaultIsFinalized" ELSE "none"

\* The first error of a list of modifier results, in the order they are applied.
RECURSIVE FirstError(_)
FirstError(errs) ==
    IF errs = <<>> THEN "none"
    ELSE IF Head(errs) # "none" THEN Head(errs)
    ELSE FirstError(Tail(errs))

\* ------------------------------------------------------------------- checks
\* Faulty variant of checkWeights: any vector is accepted.
Mutant_checkWeights(weights) == "none"

checkWeights(weights) ==
    IF SeqSum(weights) # ONE THEN "Mammon__SumOfWeightIsNotOne" ELSE "none"

checkGuardianAddress(w, newGuardian) ==
    IF newGuardian = ZERO_ADDRESS THEN "Mammon__GuardianIsZeroAddress"
    ELSE IF newGuardian = w.owner THEN "Mammon__GuardianIsOwner"
    ELSE "none"

setSwapEnabled(w, enabled) == [w EXCEPT !.swapEnabled = enabled]

\* ------------------------------------------------------------ initialDeposit
\* depositToken for every slot with a positive amount, pool slots first.
RECURSIVE depositTokensFromOwner(_, _, _)
depositTokensFromOwner(w, amounts, k) ==
    IF k > numTokens \/ ~Ok(w) THEN w
    ELSE depositTokensFromOwner(
            IF amounts[k] > 0 THEN transfer(w, k, w.owner, Vault, amounts[k]) ELSE w,
            amounts, k + 1)

\* bVault.joinPool with JoinKind.INIT: the pool takes `balances` from the
\* vault contract; Balancer rejects a join that mints no pool tokens.
joinPoolInit(w, balances) ==
    IF \E i \in PoolSlots : balances[i] = 0 THEN Fail(w, "BAL#204")
    ELSE depositToPool(w, balances)

initialDeposit(w, caller, amounts, targetWeights) ==
    LET m == onlyOwner(w, caller) IN
    IF m # "none" THEN Fail(w, m)
    ELSE IF w.initialized THEN Fail(w, "Mammon__VaultIsAlreadyInitialized")
    ELSE LET w1 == [w EXCEPT !.initialized = TRUE,
                             !.lastFeeCheckpoint = w.now,
                             !.initializedAt = w.now]
             c == checkWeights(targetWeights)
         IN IF c # "none" THEN Fail(w, c)
            ELSE LET w2 == depositTokensFromOwner(w1, amounts, 1)
                     w3 == IF Ok(w2)
                           THEN joinPoolInit(w2, [i \in PoolSlots |-> amounts[i]])
                           ELSE w2
                 IN IF Ok(w3) THEN setSwapEnabled(w3, TRUE) ELSE w3

\* The states a callee can see during the external calls of initialDeposit:
\* the flags are set, the tokens are being pulled from the owner; the function
\* has no nonReentrant modifier, so the lock is not taken.
duringInitialDeposit(w, caller, amounts, targetWeights) ==
    IF onlyOwner(w, caller) # "none" \/ w.initialized
          \/ checkWeights(targetWeights) # "none"
    THEN {}
    ELSE LET w1 == [w EXCEPT !.initialized = TRUE,
                             !.lastFeeCheckpoint = w.now,
                             !.initializedAt = w.now]
         IN {m \in {w1, depositTokensFromOwner(w1, amounts, 1)} : Ok(m)}

\* ------------------------------------------------------------------ deposit
PriceTypes == {"DETERMINED", "ORACLE", "SPOT"}

\* Faulty variant of getDeterminedPrices: the oracle prices are chosen whatever
\* the values and the spot prices are.
Mutant_getDeterminedPrices(w, amounts) ==
    [err |-> FirstError(<<getOraclePricesErr(w),
                          checkOracleStatus(w, getOracleUpdatedAt(w))>>),
     prices |-> getOraclePrices(w), priceType |-> "ORACLE"]

\* getDeterminedPrices: [err, prices, priceType].
getDeterminedPrices(w, amounts) ==
    LET poolHoldings == getPoolHoldings(w)
        oraclePrices == getOraclePrices(w)
        updatedAt == getOracleUpdatedAt(w)
        spotPrices == getSpotPrices(w, poolHoldings)
        totals == getUnderlyingTotalBalances(w, poolHoldings,
                                             getUnderlyingBalances(w))
        ratio(i) == IF oraclePrices[i] > spotPrices[i]
                    THEN Div(oraclePrices[i] * ONE, spotPrices[i])
                    ELSE Div(spotPrices[i] * ONE, oraclePrices[i])
        oracle == [err |-> checkOracleStatus(w, updatedAt),
                   prices |-> oraclePrices, priceType |-> "ORACLE"]
        failed(e) == [err |-> e, prices |-> oraclePrices, priceType |-> "ORACLE"]
    IN IF getOraclePricesErr(w) # "none" THEN failed(getOraclePricesErr(w))
       ELSE IF getSpotPricesErr(w, poolHoldings) # "none"
       THEN failed(getSpotPricesErr(w, poolHoldings))
       ELSE IF getHoldingsReverts(w) THEN failed("Panic(0x11)")
       ELSE IF getValue(totals, spotPrices) < minReliableVaultValue THEN oracle
       ELSE IF \E i \in PoolSlots :
                 /\ i # numeraireAssetIndex
                 /\ oraclePrices[i] > spotPrices[i]
                 /\ spotPrices[i] = 0
       THEN failed("Panic(0x12)")
       ELSE IF \E i \in PoolSlots :
                 i # numeraireAssetIndex /\ ratio(i) > maxOracleSpotDivergence
       THEN failed("Mammon__OracleSpotPriceDivergenceExceedsMax")
       ELSE IF getValue(amounts, spotPrices) < minSignificantDepositValue
       THEN [err |-> "none", prices |-> spotPrices, priceType |-> "SPOT"]
       ELSE oracle

\* Faulty variant of depositTokens: the pool tokens received stay in the vault
\* contract.
Mutant_depositTokens(w, amounts) == depositTokensFromOwner(w, amounts, 1)

\* depositTokens: pull every positive amount from the owner, then move the
\* pool tokens received into the pool.
depositTokens(w, amounts) ==
    LET w1 == depositTokensFromOwner(w, amounts, 1)
    IN IF ~Ok(w1) THEN w1
       ELSE depositToPool(w1, [i \in PoolSlots |-> amounts[i]])

\* The weights handed to updatePoolWeights by depositTokensAndUpdateWeights.
\* A zero divisor is reported by depositWeightsErr.
depositWeights(weights, amounts, poolHoldings, poolNewHoldings, prices, priceType) ==
    IF priceType = "ORACLE"
    THEN [i \in PoolSlots |->
            IF i = numeraireAssetIndex THEN ONE
            ELSE Div(poolNewHoldings[i] * prices[i],
                     poolNewHoldings[numeraireAssetIndex])]
    ELSE [i \in PoolSlots |->
            IF amounts[i] > 0
            THEN Div(weights[i] * poolNewHoldings[i], poolHoldings[i])
            ELSE weights[i]]

depositWeightsErr(amounts, poolHoldings, poolNewHoldings, priceType) ==
    IF priceType = "ORACLE"
    THEN IF numPoolTokens > 1 /\ poolNewHoldings[numeraireAssetIndex] = 0
         THEN "Panic(0x12)" ELSE "none"
    ELSE IF \E i \in PoolSlots : amounts[i] > 0 /\ poolHoldings[i] = 0
         THEN "Panic(0x12)" ELSE "none"

depositTokensAndUpdateWeights(w, amounts, priceType0) ==
    LET w1 == lockGuardianFees(w, FALSE) IN
    IF ~Ok(w1) THEN w1 ELSE
    LET poolHoldings == getPoolHoldings(w1)
        weights == poolGetNormalizedWeights(w1)
        det == IF priceType0 = "DETERMINED" THEN getDeterminedPrices(w1, amounts)
               ELSE [err |-> "none", prices |-> Zeros(numPoolTokens),
                     priceType |-> priceType0]
    IN IF det.err # "none" THEN Fail(w, det.err) ELSE
    LET w2 == depositTokens(w1, amounts) IN
    IF ~Ok(w2) THEN w2 ELSE
    LET poolNewHoldings == getPoolHoldings(w2)
        e == depositWeightsErr(amounts, poolHoldings, poolNewHoldings, det.priceType)
        newWeights == depositWeights(weights, amounts, poolHoldings,
                                     poolNewHoldings, det.prices, det.priceType)
    IN IF e # "none" THEN Fail(w, e) ELSE
    LET w3 == updatePoolWeights(w2, newWeights, SeqSum(newWeights)) IN
    IF ~Ok(w3) THEN w3
    ELSE IF getNormalizedWeightsErr(w3) # "none"
    THEN Fail(w, getNormalizedWeightsErr(w3))
    ELSE [w3 EXCEPT !.event = getNormalizedWeights(w3)]

\* The four deposit entry points: `risking` selects the spot price type,
\* `ifUnchanged` the check of lastChangeBlock.
deposit(w, caller, amounts, risking, ifUnchanged) ==
    LET m == FirstError(<<nonReentrant(w),
                          onlyOwner(w, caller), whenInitialized(w),
                          whenNotFinalized(w)>>) IN
    IF m # "none" THEN Fail(w, m)
    ELSE IF ifUnchanged /\ w.lastChangeBlock = w.now
    THEN Fail(w, "Mammon__BalanceChangedInCurrentBlock")
    ELSE depositTokensAndUpdateWeights(w, amounts,
                                       IF risking THEN "SPOT" ELSE "DETERMINED")

\* The state a callee can see during the depositToken calls of a successful
\* deposit: the lock is taken, the fees are locked, no token has moved yet.
duringDeposit(w, caller, amounts, risking, ifUnchanged) ==
    IF Ok(deposit(w, caller, amounts, risking, ifUnchanged))
    THEN {entered(lockGuardianFees(w, FALSE))}
    ELSE {}

\* ----------------------------------------------------------------- withdraw
\* Faulty variant of checkWithdrawAmount: the amounts are not compared
\* with the holdings.
Mutant_checkWithdrawAmount(w, holdings, amounts) == "none"

checkWithdrawAmount(w, holdings, amounts) ==
    IF \E i \in PoolSlots : amounts[i] > holdings[i]
    THEN "Mammon__AmountExceedAvailable"
    ELSE IF \E k \in YieldSlots : ~isWithdrawable[k] /\ maxWithdrawErr(w, k) # "none"
    THEN "Vault is paused"
    ELSE IF \E k \in YieldSlots :
              amounts[k] > (IF isWithdrawable[k] THEN holdings[k]
                            ELSE Min(convertToAssets(w, k, holdings[k]),
                                     maxWithdraw(w, k, Vault)))
    THEN "Mammon__AmountExceedAvailable"
    ELSE "none"

\* yieldToken.withdraw(assets, vault, vault) of the wrapper of slot k, whose
\* asset is the pool token of slot u: burns the shares, pays the assets.
yieldTokenWithdraw(w, k, u, assets) ==
    LET shares == previewWithdraw(w, k, assets)
    IN IF maxWithdrawErr(w, k) # "none" THEN Fail(w, maxWithdrawErr(w, k))
       ELSE IF assets > maxWithdraw(w, k, Vault)
       THEN Fail(w, "ERC4626: withdraw more than max")
       ELSE IF shares > w.bal[Vault][k]
       THEN Fail(w, "ERC20: burn amount exceeds balance")
       ELSE IF assets > w.yAssets[k]
       THEN Fail(w, "ERC20: transfer amount exceeds balance")
       ELSE [w EXCEPT !.bal[Vault][k] = @ - shares,
                      !.bal[Vault][u] = @ + assets,
                      !.yAssets[k] = @ - assets]

\* Faulty variant of withdrawUnderlyingAsset: the value of the amount is not
\* compared with minYieldActionThreshold.
Mutant_withdrawUnderlyingAsset(w, k, amount, oraclePrice, underlyingIndex) ==
    IF maxWithdrawErr(w, k) # "none" \/ maxWithdraw(w, k, Vault) = 0 THEN w
    ELSE yieldTokenWithdraw(w, k, underlyingIndex,
                            Min(amount, maxWithdraw(w, k, Vault)))

\* Faulty variant of withdrawUnderlyingAsset: a revert of maxWithdraw is not
\* caught.
Mutant_withdrawUnderlyingAssetNoCatch(w, k, amount, oraclePrice, underlyingIndex) ==
    LET tokenValue == IF underlyingIndex = numeraireAssetIndex THEN amount
                      ELSE (amount * oraclePrice) \div ONE
    IN IF tokenValue < minYieldActionThreshold THEN w
       ELSE yieldTokenWithdraw(w, k, underlyingIndex,
                               Min(amount, maxWithdraw(w, k, Vault)))

\* withdrawUnderlyingAsset: the state after it; the amount it returns is the
\* growth of the vault's balance of the underlying asset.  A revert of
\* maxWithdraw is caught and counts as a withdrawal of 0.
withdrawUnderlyingAsset(w, k, amount, oraclePrice, underlyingIndex) ==
    LET tokenValue == IF underlyingIndex = numeraireAssetIndex THEN amount
                      ELSE (amount * oraclePrice) \div ONE
        maxAssets == maxWithdraw(w, k, Vault)
    IN IF tokenValue < minYieldActionThreshold THEN w
       ELSE IF maxWithdrawErr(w, k) # "none" THEN w
       ELSE IF maxAssets = 0 THEN w
       ELSE yieldTokenWithdraw(w, k, underlyingIndex, Min(amount, maxAssets))

\* The yield loop of withdrawTokens from slot k on; `balances` are the
\* withdrawn amounts reported so far.
RECURSIVE withdrawYieldLoop(_, _, _, _, _)
withdrawYieldLoop(w, amounts, oraclePrices, balances, k) ==
    IF k > numTokens \/ ~Ok(w) THEN [w EXCEPT !.event = balances]
    ELSE IF amounts[k] = 0
    THEN withdrawYieldLoop(w, amounts, oraclePrices, balances, k + 1)
    ELSE IF isWithdrawable[k]
    THEN withdrawYieldLoop(transfer(w, k, Vault, w.owner, amounts[k]), amounts,
                           oraclePrices, [balances EXCEPT ![k] = amounts[k]], k + 1)
    ELSE LET u == underlyingIndexes[k]
             w1 == withdrawUnderlyingAsset(w, k, amounts[k], oraclePrices[u], u)
             got == IF Ok(w1) THEN w1.bal[Vault][u] - w.bal[Vault][u] ELSE 0
         IN withdrawYieldLoop(
                IF Ok(w1) THEN transfer(w1, u, Vault, w.owner, got) ELSE w1,
                amounts, oraclePrices, [balances EXCEPT ![k] = got], k + 1)

\* The pool loop of withdrawTokens: every withdrawn pool token goes to the
\* owner.
RECURSIVE withdrawPoolLoop(_, _, _)
withdrawPoolLoop(w, amounts, i) ==
    IF i > numPoolTokens \/ ~Ok(w) THEN w
    ELSE withdrawPoolLoop(
            IF amounts[i] > 0 THEN transfer(w, i, Vault, w.owner, amounts[i]) ELSE w,
            amounts, i + 1)

withdrawTokens(w, amounts) ==
    LET w1 == lockGuardianFees(w, FALSE) IN
    IF ~Ok(w1) THEN w1
    ELSE IF getHoldingsReverts(w1) THEN Fail(w, "Panic(0x11)") ELSE
    LET holdings == getHoldings(w1)
        weights == poolGetNormalizedWeights(w1)
        c == FirstError(<<checkWithdrawAmount(w1, holdings, amounts),
                          getOraclePricesErr(w1),
                          checkOracleStatus(w1, getOracleUpdatedAt(w1))>>)
    IN IF c # "none" THEN Fail(w, c) ELSE
    LET oraclePrices == getOraclePrices(w1)
        w2 == withdrawFromPool(w1, [i \in PoolSlots |-> amounts[i]])
        w3 == IF Ok(w2) THEN withdrawPoolLoop(w2, amounts, 1) ELSE w2
        newWeights == [i \in PoolSlots |->
                         IF amounts[i] > 0
                         THEN (weights[i] * (holdings[i] - amounts[i]))
                                 \div holdings[i]
                         ELSE weights[i]]
        w4 == IF Ok(w3)
              THEN withdrawYieldLoop(w3, amounts, oraclePrices,
                      [k \in Slots |-> IF k \in PoolSlots THEN amounts[k] ELSE 0],
                      numPoolTokens + 1)
              ELSE w3
    IN IF ~Ok(w4) THEN w4 ELSE
    LET w5 == updatePoolWeights(w4, newWeights, SeqSum(newWeights)) IN
    IF ~Ok(w5) THEN w5
    ELSE IF getNormalizedWeightsErr(w5) # "none"
    THEN Fail(w, getNormalizedWeightsErr(w5))
    ELSE [w5 EXCEPT !.event = getNormalizedWeights(w5)]

\* Faulty variant of withdraw: withdrawIfBalanceUnchanged does not look at
\* the block of the last balance change.
Mutant_withdraw(w, caller, amounts, ifUnchanged) ==
    LET m == FirstError(<<nonReentrant(w),
                          onlyOwner(w, caller), whenInitialized(w),
                          whenNotFinalized(w)>>) IN
    IF m # "none" THEN Fail(w, m)
    ELSE withdrawTokens(w, amounts)

\* withdraw and withdrawIfBalanceUnchanged.
withdraw(w, caller, amounts, ifUnchanged) ==
    LET m == FirstError(<<nonReentrant(w),
                          onlyOwner(w, caller), whenInitialized(w),
                          whenNotFinalized(w)>>) IN
    IF m # "none" THEN Fail(w, m)
    ELSE IF ifUnchanged /\ w.lastChangeBlock = w.now
    THEN Fail(w, "Mammon__BalanceChangedInCurrentBlock")
    ELSE withdrawTokens(w, amounts)

\* ----------------------------------------------------- updateWeightsGradually
\* yieldToken.deposit(assets, vault) of the wrapper of slot k, whose asset is
\* the pool token of slot u: takes the assets, mints the shares.
yieldTokenDeposit(w, k, u, assets) ==
    LET shares == convertToShares(w, k, assets)
    IN IF maxDepositErr(w, k) # "none" THEN Fail(w, maxDepositErr(w, k))
       ELSE IF assets > maxDeposit(w, k, Vault)
       THEN Fail(w, "ERC4626: deposit more than max")
       ELSE IF assets > w.bal[Vault][u]
       THEN Fail(w, "ERC20: transfer amount exceeds balance")
       ELSE [w EXCEPT !.bal[Vault][u] = @ - assets,
                      !.bal[Vault][k] = @ + shares,
                      !.yAssets[k] = @ + assets]

\* depositUnderlyingAsset: the state after it; the amount it returns is
\* depositedAmount(w, k, amount, oraclePrice, underlyingIndex).  A revert of
\* maxDeposit is caught and counts as a deposit of 0.
depositedAmount(w, k, amount, oraclePrice, underlyingIndex) ==
    LET tokenValue == IF underlyingIndex = numeraireAssetIndex THEN amount
                      ELSE (amount * oraclePrice) \div ONE
    IN IF tokenValue < minYieldActionThreshold THEN 0
       ELSE IF maxDepositErr(w, k) # "none" THEN 0
       ELSE Min(amount, maxDeposit(w, k, Vault))

depositUnderlyingAsset(w, k, amount, oraclePrice, underlyingIndex) ==
    LET depositAmount == depositedAmount(w, k, amount, oraclePrice, underlyingIndex)
    IN IF depositAmount = 0 THEN w
       ELSE yieldTokenDeposit(w, k, underlyingIndex, depositAmount)

\* calcAdjustmentAmounts from yield slot k on, for yield slots up to `last`
\* with the underlying indexes `indexes`: targetBalance is the local variable
\* of the loop, which the loop never resets.
RECURSIVE calcAdjustmentLoopOver(_, _, _, _, _, _, _, _, _)
calcAdjustmentLoopOver(last, indexes, value, underlyingBalances, targetWeights, oraclePrices, targetBalance, acc, k) ==
    IF k > last THEN acc
    ELSE LET tb == IF targetWeights[k] > 0
                   THEN Div(value * targetWeights[k],
                            oraclePrices[indexes[k]])
                   ELSE targetBalance
             acc1 == IF tb > underlyingBalances[k]
                     THEN [acc EXCEPT !.depositAmounts[k] = tb - underlyingBalances[k]]
                     ELSE [acc EXCEPT !.withdrawAmounts[k] = underlyingBalances[k] - tb]
         IN calcAdjustmentLoopOver(last, indexes, value, underlyingBalances,
                                   targetWeights, oraclePrices, tb, acc1, k + 1)

\* The loop in the vault's own configuration.
calcAdjustmentLoop(value, underlyingBalances, targetWeights, oraclePrices, targetBalance, acc, k) ==
    calcAdjustmentLoopOver(numTokens, underlyingIndexes, value, underlyingBalances,
                           targetWeights, oraclePrices, targetBalance, acc, k)

calcAdjustmentAmounts(w, poolHoldings, underlyingBalances, targetWeights, oraclePrices) ==
    LET value == getValue(getUnderlyingTotalBalances(w, poolHoldings,
                                                     underlyingBalances),
                          oraclePrices)
    IN calcAdjustmentLoop(value, underlyingBalances, targetWeights, oraclePrices, 0,
                          [depositAmounts |-> [k \in YieldSlots |-> 0],
                           withdrawAmounts |-> [k \in YieldSlots |-> 0]],
                          numPoolTokens + 1)

\* withdrawFromYieldTokens from yield slot k on.  The amounts it returns are
\* the growth of the vault's balances of the pool tokens.
RECURSIVE withdrawFromYieldTokens(_, _, _, _)
withdrawFromYieldTokens(w, withdrawAmounts, oraclePrices, k) ==
    IF k > numTokens \/ ~Ok(w) THEN w
    ELSE withdrawFromYieldTokens(
            IF withdrawAmounts[k] > 0
            THEN withdrawUnderlyingAsset(w, k, withdrawAmounts[k],
                                         oraclePrices[underlyingIndexes[k]],
                                         underlyingIndexes[k])
            ELSE w,
            withdrawAmounts, oraclePrices, k + 1)

calcNecessaryAmountsErr(w) ==
    IF \E i \in PoolSlots : poolGetNormalizedWeights(w)[i] < MIN_WEIGHT
    THEN "Panic(0x11)" ELSE "none"

\* Faulty variant of calcNecessaryAmounts: the amount is not capped by the
\* available holdings.
Mutant_calcNecessaryAmounts(w, poolHoldings, depositAmounts, balances) ==
    LET wanted == [i \in PoolSlots |->
            SeqSum([n \in 1..numYieldTokens |->
                IF underlyingIndexes[numPoolTokens + n] = i
                THEN depositAmounts[numPoolTokens + n] ELSE 0])]
    IN [i \in PoolSlots |->
          IF wanted[i] <= balances[i] THEN 0 ELSE wanted[i] - balances[i]]

calcNecessaryAmounts(w, poolHoldings, depositAmounts, balances) ==
    LET poolWeights == poolGetNormalizedWeights(w)
        availableHoldings == [i \in PoolSlots |->
            Div(poolHoldings[i] * (poolWeights[i] - MIN_WEIGHT), poolWeights[i])]
        wanted == [i \in PoolSlots |->
            SeqSum([n \in 1..numYieldTokens |->
                IF underlyingIndexes[numPoolTokens + n] = i
                THEN depositAmounts[numPoolTokens + n] ELSE 0])]
    IN [i \in PoolSlots |->
          IF wanted[i] <= balances[i] THEN 0
          ELSE IF wanted[i] > availableHoldings[i] + balances[i]
          THEN availableHoldings[i]
          ELSE wanted[i] - balances[i]]

\* The deposit loop of depositToYieldTokens from yield slot k on.  The amount
\* offered to the wrapper is bounded by balances[i] with i the position of
\* the yield token (k - numPoolTokens), as the contract writes it.
RECURSIVE depositToYieldLoop(_, _, _, _, _)
depositToYieldLoop(w, depositAmounts, oraclePrices, balances, k) ==
    IF k > numTokens \/ ~Ok(w) THEN [w EXCEPT !.event = balances]
    ELSE LET u == underlyingIndexes[k]
             amount == Min(depositAmounts[k], balances[k - numPoolTokens])
             go == depositAmounts[k] > 0 /\ balances[u] > 0
             d == IF go THEN depositedAmount(w, k, amount, oraclePrices[u], u) ELSE 0
             w1 == IF go THEN depositUnderlyingAsset(w, k, amount, oraclePrices[u], u)
                   ELSE w
         IN IF d > balances[u] THEN Fail(w, "Panic(0x11)")
            ELSE depositToYieldLoop(w1, depositAmounts, oraclePrices,
                                    [balances EXCEPT ![u] = @ - d], k + 1)

depositToYieldTokens(w, poolHoldings, depositAmounts, balances, oraclePrices) ==
    IF calcNecessaryAmountsErr(w) # "none" THEN Fail(w, calcNecessaryAmountsErr(w))
    ELSE
    LET necessaryAmounts == calcNecessaryAmounts(w, poolHoldings, depositAmounts,
                                                 balances)
        w1 == withdrawFromPool(w, necessaryAmounts)
        newBalances == [i \in PoolSlots |-> balances[i] + necessaryAmounts[i]]
        w2 == IF Ok(w1)
              THEN depositToYieldLoop(w1, depositAmounts, oraclePrices, newBalances,
                                      numPoolTokens + 1)
              ELSE w1
    IN IF ~Ok(w2) THEN w2
       ELSE depositToPool([w2 EXCEPT !.event = <<>>], w2.event)

adjustYieldTokens(w, poolHoldings, targetWeights) ==
    IF getHoldingsReverts(w) THEN Fail(w, "Panic(0x11)")
    ELSE
    LET underlyingBalances == getUnderlyingBalances(w)
        c == FirstError(<<getOraclePricesErr(w),
                          checkOracleStatus(w, getOracleUpdatedAt(w))>>)
    IN IF c # "none" THEN Fail(w, c) ELSE
    LET oraclePrices == getOraclePrices(w)
        adj == calcAdjustmentAmounts(w, poolHoldings, underlyingBalances,
                                     targetWeights, oraclePrices)
        w1 == withdrawFromYieldTokens(w, adj.withdrawAmounts, oraclePrices,
                                      numPoolTokens + 1)
    IN IF ~Ok(w1) THEN w1
       ELSE depositToYieldTokens(w1, poolHoldings, adj.depositAmounts,
                [i \in PoolSlots |-> w1.bal[Vault][i] - w.bal[Vault][i]],
                oraclePrices)

getUnderlyingTotalWeights(weights) ==
    [i \in PoolSlots |->
        weights[i] + SeqSum([n \in 1..numYieldTokens |->
            IF underlyingIndexes[numPoolTokens + n] = i
            THEN weights[numPoolTokens + n] ELSE 0])]

\* adjustPoolWeights: [w |-> state after it, targetPoolWeights |-> result].
adjustPoolWeights(w, poolHoldings, targetWeights) ==
    LET failed(e) == [w |-> Fail(w, e), targetPoolWeights |-> <<>>]
        total == getUnderlyingTotalWeights(targetWeights)
        currentPoolHoldings == getPoolHoldings(w)
        poolWeights == poolGetNormalizedWeights(w)
    IN IF getNormalizedWeightsErr(w) # "none" THEN failed(getNormalizedWeightsErr(w))
       ELSE
       LET currentWeights == getNormalizedWeights(w)
           minus == [i \in PoolSlots |->
               SeqSum([n \in 1..numYieldTokens |->
                   IF underlyingIndexes[numPoolTokens + n] = i
                   THEN currentWeights[numPoolTokens + n] ELSE 0])]
       IN IF \E i \in PoolSlots : total[i] < minus[i] THEN failed("Panic(0x11)")
          ELSE IF \E i \in PoolSlots : poolHoldings[i] = 0 THEN failed("Panic(0x12)")
          ELSE
          LET targetPoolWeights == [i \in PoolSlots |-> total[i] - minus[i]]
              newPoolWeights == [i \in PoolSlots |->
                  (poolWeights[i] * currentPoolHoldings[i]) \div poolHoldings[i]]
              w1 == updatePoolWeights(w, newPoolWeights, SeqSum(newPoolWeights))
          IN IF ~Ok(w1) THEN [w |-> w1, targetPoolWeights |-> <<>>]
             ELSE IF normalizeWeightsErr(targetPoolWeights,
                                         SeqSum(targetPoolWeights)) # "none"
             THEN failed("Panic(0x12)")
             ELSE [w |-> w1,
                   targetPoolWeights |->
                       normalizeWeights(targetPoolWeights, SeqSum(targetPoolWeights))]

getWeightChangeRatio(weight, targetWeight) ==
    IF weight > targetWeight THEN Div(ONE * weight, targetWeight)
    ELSE Div(ONE * targetWeight, weight)

\* Faulty variant of checkWeightChangeRatio: the ratio is not compared with the
\* maximum.
Mutant_checkWeightChangeRatio(w, targetPoolWeights, startTime, endTime) ==
    IF \E i \in PoolSlots :
          targetPoolWeights[i] = 0 \/ poolGetNormalizedWeights(w)[i] = 0
    THEN "Panic(0x12)" ELSE "none"

checkWeightChangeRatio(w, targetPoolWeights, startTime, endTime) ==
    LET currentPoolWeights == poolGetNormalizedWeights(w)
        maximumRatio == MAX_WEIGHT_CHANGE_RATIO * (endTime - startTime)
    IN IF \E i \in PoolSlots : targetPoolWeights[i] = 0 \/ currentPoolWeights[i] = 0
       THEN "Panic(0x12)"
       ELSE IF \E i \in PoolSlots :
                 getWeightChangeRatio(currentPoolWeights[i], targetPoolWeights[i])
                     > maximumRatio
       THEN "Mammon__WeightChangeRatioIsAboveMax"
       ELSE "none"

updateWeightsGradually(w, caller, targetWeights, startTime0, endTime) ==
    LET m == FirstError(<<nonReentrant(w),
                          onlyGuardian(w, caller), whenInitialized(w),
                          whenNotFinalized(w)>>)
        startTime == Max(w.now, startTime0)
    IN IF m # "none" THEN Fail(w, m)
       ELSE IF startTime0 > TypeUint32Max
       THEN Fail(w, "Mammon__WeightChangeStartTimeIsAboveMax")
       ELSE IF endTime > TypeUint32Max
       THEN Fail(w, "Mammon__WeightChangeEndTimeIsAboveMax")
       ELSE IF startTime > endTime THEN Fail(w, "Mammon__WeightChangeEndBeforeStart")
       ELSE IF startTime + MINIMUM_WEIGHT_CHANGE_DURATION > endTime
       THEN Fail(w, "Mammon__WeightChangeDurationIsBelowMin")
       ELSE IF checkWeights(targetWeights) # "none"
       THEN Fail(w, checkWeights(targetWeights))
       ELSE
       LET poolHoldings == getPoolHoldings(w)
           w1 == adjustYieldTokens(w, poolHoldings, targetWeights)
       IN IF ~Ok(w1) THEN w1 ELSE
       LET a == adjustPoolWeights(w1, poolHoldings, targetWeights) IN
       IF ~Ok(a.w) THEN a.w ELSE
       LET c == checkWeightChangeRatio(a.w, a.targetPoolWeights, startTime, endTime)
       IN IF c # "none" THEN Fail(w, c)
          ELSE LET w2 == poolUpdateWeightsGradually(a.w, startTime, endTime,
                                                    a.targetPoolWeights)
               IN IF ~Ok(w2) THEN w2 ELSE [w2 EXCEPT !.event = targetWeights]

\* Faulty variant of cancelWeightUpdates: the weights are set to the targets of
\* the schedule.
Mutant_cancelWeightUpdates(w, caller) ==
    LET m == FirstError(<<nonReentrant(w),
                          onlyGuardian(w, caller), whenInitialized(w),
                          whenNotFinalized(w)>>) IN
    IF m # "none" THEN Fail(w, m) ELSE
    LET w1 == updatePoolWeights(w, w.weightEnd, SeqSum(w.weightEnd))
    IN IF ~Ok(w1) THEN w1 ELSE [w1 EXCEPT !.event = getNormalizedWeights(w1)]

cancelWeightUpdates(w, caller) ==
    LET m == FirstError(<<nonReentrant(w),
                          onlyGuardian(w, caller), whenInitialized(w),
                          whenNotFinalized(w)>>) IN
    IF m # "none" THEN Fail(w, m) ELSE
    LET weights == poolGetNormalizedWeights(w)
        w1 == updatePoolWeights(w, weights, SeqSum(weights))
    IN IF ~Ok(w1) THEN w1
       ELSE IF getNormalizedWeightsErr(w1) # "none"
       THEN Fail(w, getNormalizedWeightsErr(w1))
       ELSE [w1 EXCEPT !.event = getNormalizedWeights(w1)]

\* ------------------------------------------------------------ enable trading
enableTradingWithWeights(w, caller, targetWeights) ==
    LET m == FirstError(<<onlyOwner(w, caller), whenInitialized(w)>>) IN
    IF m # "none" THEN Fail(w, m)
    ELSE IF w.swapEnabled THEN Fail(w, "Mammon__PoolSwapIsAlreadyEnabled")
    ELSE IF checkWeights(targetWeights) # "none"
    THEN Fail(w, checkWeights(targetWeights))
    ELSE
    LET targetPoolWeights == [i \in PoolSlots |-> targetWeights[i]]
        weightSum == SeqSum(targetPoolWeights)
    IN IF normalizeWeightsErr(targetPoolWeights, weightSum) # "none"
       THEN Fail(w, "Panic(0x12)")
       ELSE LET w1 == poolUpdateWeightsGradually(w, w.now, w.now,
                          normalizeWeights(targetPoolWeights, weightSum))
            IN IF ~Ok(w1) THEN w1
               ELSE [setSwapEnabled(w1, TRUE) EXCEPT !.event = targetWeights]

enableTradingWithOraclePrice(w, caller) ==
    LET m == FirstError(<<nonReentrant(w), onlyGuardian(w, caller), whenInitialized(w)>>) IN
    IF m # "none" THEN Fail(w, m) ELSE
    LET c == FirstError(<<getOraclePricesErr(w),
                          checkOracleStatus(w, getOracleUpdatedAt(w))>>) IN
    IF c # "none" THEN Fail(w, c) ELSE
    LET prices == getOraclePrices(w)
        poolHoldings == getPoolHoldings(w)
        numeraireAssetHolding == poolHoldings[numeraireAssetIndex]
        weights == [i \in PoolSlots |->
            IF i = numeraireAssetIndex THEN ONE
            ELSE Div(Div(poolHoldings[i] * ONE, numeraireAssetHolding) * ONE,
                     prices[i])]
    IN IF numPoolTokens > 1 /\ numeraireAssetHolding = 0 THEN Fail(w, "Panic(0x12)")
       ELSE IF \E i \in PoolSlots : prices[i] = 0 THEN Fail(w, "Panic(0x12)")
       ELSE LET w1 == updatePoolWeights(w, weights, SeqSum(weights))
            IN IF ~Ok(w1) THEN w1
               ELSE [setSwapEnabled(w1, TRUE) EXCEPT
                        !.event = poolGetNormalizedWeights(w1)]

setOraclesEnabled(w, caller, enabled) ==
    LET m == onlyOwnerOrGuardian(w, caller) IN
    IF m # "none" THEN Fail(w, m) ELSE [w EXCEPT !.oraclesEnabled = enabled]

\* ------------------------------------------------------------------ finalize
\* The loop of returnFunds from slot k on; `amounts` are the amounts returned
\* so far.
RECURSIVE returnFundsLoop(_, _, _)
returnFundsLoop(w, amounts, k) ==
    IF k > numTokens \/ ~Ok(w) THEN [w EXCEPT !.event = amounts]
    ELSE IF w.bal[Vault][k] < w.guardiansFeeTotal[k] THEN Fail(w, "Panic(0x11)")
    ELSE LET amount == w.bal[Vault][k] - w.guardiansFeeTotal[k]
         IN returnFundsLoop(transfer(w, k, Vault, w.owner, amount),
                            Append(amounts, amount), k + 1)

\* Faulty variant of returnFunds: the outstanding fees are returned as well.
Mutant_returnFunds(w) ==
    LET w1 == withdrawFromPool(w, getPoolHoldings(w))
    IN IF ~Ok(w1) THEN w1
       ELSE [w1 EXCEPT !.bal[Vault] = Zeros(numTokens),
                       !.bal[w.owner] = [k \in Slots |->
                                            w1.bal[w.owner][k] + w1.bal[Vault][k]],
                       !.event = w1.bal[Vault]]

returnFunds(w) ==
    LET w1 == withdrawFromPool(w, getPoolHoldings(w))
    IN IF Ok(w1) THEN returnFundsLoop(w1, <<>>, 1) ELSE w1

finalize(w, caller) ==
    LET m == FirstError(<<nonReentrant(w),
                          onlyOwner(w, caller), whenInitialized(w),
                          whenNotFinalized(w)>>) IN
    IF m # "none" THEN Fail(w, m)
    ELSE LET w1 == lockGuardianFees([w EXCEPT !.finalized = TRUE], TRUE)
         IN IF ~Ok(w1) THEN w1
            ELSE returnFunds(setSwapEnabled(w1, FALSE))

\* --------------------------------------------------------------- setGuardian
\* Faulty variant of setGuardian: the guardian changes before the fees of the
\* elapsed time are locked.
Mutant_setGuardian(w, caller, newGuardian) ==
    LET m == FirstError(<<nonReentrant(w), onlyOwner(w, caller)>>) IN
    IF m # "none" THEN Fail(w, m)
    ELSE LET c == checkGuardianAddress(w, newGuardian) IN
    IF c # "none" THEN Fail(w, c)
    ELSE LET w1 == IF Len(w.guardiansFee[newGuardian]) = 0
                   THEN [w EXCEPT !.guardiansFee[newGuardian] = Zeros(numTokens)]
                   ELSE w
             w2 == [w1 EXCEPT !.guardian = newGuardian, !.guardianSince = w.now]
         IN IF w.initialized /\ ~w.finalized THEN lockGuardianFees(w2, FALSE) ELSE w2

setGuardian(w, caller, newGuardian) ==
    LET m == FirstError(<<nonReentrant(w), onlyOwner(w, caller)>>) IN
    IF m # "none" THEN Fail(w, m)
    ELSE LET c == checkGuardianAddress(w, newGuardian) IN
    IF c # "none" THEN Fail(w, c)
    ELSE LET w1 == IF w.initialized /\ ~w.finalized
                   THEN lockGuardianFees(w, FALSE) ELSE w
         IN IF ~Ok(w1) THEN w1
            ELSE LET w2 == IF Len(w1.guardiansFee[newGuardian]) = 0
                           THEN [w1 EXCEPT !.guardiansFee[newGuardian] = Zeros(numTokens)]
                           ELSE w1
                 IN [w2 EXCEPT !.guardian = newGuardian,
                               !.guardianSince = w.now]

\* --------------------------------------------------------- claimGuardianFees
\* The loop of claimGuardianFees from slot k on, paying `fees` to `caller`.
\* Faulty variant of claimLoop: the outstanding total is not decreased.
RECURSIVE Mutant_claimLoop(_, _, _, _)
Mutant_claimLoop(w, caller, fees, k) ==
    IF k > numTokens \/ ~Ok(w) THEN w
    ELSE Mutant_claimLoop(
            transfer([w EXCEPT !.guardiansFee[caller][k] = 0],
                     k, Vault, caller, fees[k]),
            caller, fees, k + 1)

RECURSIVE claimLoop(_, _, _, _)
claimLoop(w, caller, fees, k) ==
    IF k > numTokens \/ ~Ok(w) THEN w
    ELSE IF w.guardiansFeeTotal[k] < fees[k] THEN Fail(w, "Panic(0x11)")
    ELSE claimLoop(
            transfer([w EXCEPT !.guardiansFeeTotal[k] = @ - fees[k],
                               !.guardiansFee[caller][k] = 0],
                     k, Vault, caller, fees[k]),
            caller, fees, k + 1)

\* Faulty variant of claimGuardianFees: the ledger of a former guardian is
\* kept after the claim.
Mutant_claimGuardianFees(w, caller) ==
    LET m == FirstError(<<nonReentrant(w),
                          whenInitialized(w), whenNotFinalized(w)>>) IN
    IF m # "none" THEN Fail(w, m)
    ELSE LET w1 == IF caller = w.guardian THEN lockGuardianFees(w, FALSE) ELSE w
         IN IF ~Ok(w1) THEN w1
            ELSE IF Len(w1.guardiansFee[caller]) = 0
            THEN Fail(w, "Mammon__NoAvailableFeeForCaller")
            ELSE LET fees == w1.guardiansFee[caller]
                     w2 == claimLoop(w1, caller, fees, 1)
                 IN IF ~Ok(w2) THEN w2 ELSE [w2 EXCEPT !.event = fees]

claimGuardianFees(w, caller) ==
    LET m == FirstError(<<nonReentrant(w),
                          whenInitialized(w), whenNotFinalized(w)>>) IN
    IF m # "none" THEN Fail(w, m)
    ELSE LET w1 == IF caller = w.guardian THEN lockGuardianFees(w, FALSE) ELSE w
         IN IF ~Ok(w1) THEN w1
            ELSE IF Len(w1.guardiansFee[caller]) = 0
            THEN Fail(w, "Mammon__NoAvailableFeeForCaller")
            ELSE LET fees == w1.guardiansFee[caller]
                     w2 == claimLoop(w1, caller, fees, 1)
                 IN IF ~Ok(w2) THEN w2
                    ELSE LET w3 == IF caller # w2.guardian
                                   THEN [w2 EXCEPT !.guardiansFee[caller] = <<>>]
                                   ELSE w2
                         IN [w3 EXCEPT !.event = fees]

\* The states a callee can see during the safeTransfer calls of the loop of
\* claimGuardianFees from slot k on: for every slot, the state in which the
\* ledger is written and the token has not moved yet, and the state after
\* the token has moved.
RECURSIVE claimCallbacks(_, _, _, _)
claimCallbacks(w, caller, fees, k) ==
    IF k > numTokens \/ ~Ok(w) \/ w.guardiansFeeTotal[k] < fees[k] THEN {}
    ELSE LET pre == [w EXCEPT !.guardiansFeeTotal[k] = @ - fees[k],
                              !.guardiansFee[caller][k] = 0]
             post == transfer(pre, k, Vault, caller, fees[k])
         IN IF Ok(post) THEN {pre, post} \cup claimCallbacks(post, caller, fees, k + 1)
            ELSE {pre}

duringClaimGuardianFees(w, caller) ==
    IF ~Ok(claimGuardianFees(w, caller)) THEN {}
    ELSE LET w1 == IF caller = w.guardian THEN lockGuardianFees(w, FALSE) ELSE w
         IN claimCallbacks(entered(w1), caller, w1.guardiansFee[caller], 1)

\* --------------------------------------------------------------------- sweep
\* `token` is a slot of the vault's token list or bpt, the pool's own token.
bpt == numTokens + 1

sweep(w, caller, token, amount) ==
    LET m == onlyOwner(w, caller) IN
    IF m # "none" THEN Fail(w, m)
    ELSE IF token = bpt THEN Fail(w, "Mammon__CannotSweepPoolToken")
    ELSE transfer(w, token, Vault, w.owner, amount)

\* ------------------------------------------------------------ trading switch
enableTradingRiskingArbitrage(w, caller) ==
    LET m == FirstError(<<onlyOwner(w, caller), whenInitialized(w)>>) IN
    IF m # "none" THEN Fail(w, m) ELSE setSwapEnabled(w, TRUE)

disableTrading(w, caller) ==
    LET m == FirstError(<<onlyOwnerOrGuardian(w, caller), whenInitialized(w)>>) IN
    IF m # "none" THEN Fail(w, m) ELSE setSwapEnabled(w, FALSE)

\* --------------------------------------------------------------- setSwapFee
\* pool.updateSwapFeeGradually(now, now, fee, fee): the fee applies at once;
\* the pool rejects a fee outside its limits.
poolUpdateSwapFee(w, fee) ==
    IF fee < MIN_SWAP_FEE THEN Fail(w, "BAL#203")
    ELSE IF fee > MAX_SWAP_FEE THEN Fail(w, "BAL#202")
    ELSE [w EXCEPT !.swapFee = fee]

\* Faulty variant of setSwapFee: the cooldown is not examined.
Mutant_setSwapFee(w, caller, newSwapFee) ==
    LET m == FirstError(<<nonReentrant(w), onlyGuardian(w, caller)>>) IN
    IF m # "none" THEN Fail(w, m)
    ELSE poolUpdateSwapFee([w EXCEPT !.lastSwapFeeCheckpoint = w.now,
                                     !.event = <<newSwapFee>>], newSwapFee)

setSwapFee(w, caller, newSwapFee) ==
    LET m == FirstError(<<nonReentrant(w), onlyGuardian(w, caller)>>) IN
    IF m # "none" THEN Fail(w, m)
    ELSE IF w.now < w.lastSwapFeeCheckpoint + SWAP_FEE_COOLDOWN_PERIOD
    THEN Fail(w, "Mammon__CannotSetSwapFeeBeforeCooldown")
    ELSE LET w1 == [w EXCEPT !.lastSwapFeeCheckpoint = w.now]
             oldSwapFee == w1.swapFee
             absoluteDelta == IF newSwapFee > oldSwapFee
                              THEN newSwapFee - oldSwapFee
                              ELSE oldSwapFee - newSwapFee
         IN IF absoluteDelta > MAXIMUM_SWAP_FEE_PERCENT_CHANGE
            THEN Fail(w, "Mammon__SwapFeePercentageChangeIsAboveMax")
            ELSE LET w2 == poolUpdateSwapFee(w1, newSwapFee)
                 IN IF ~Ok(w2) THEN Fail(w, w2.err)
                    ELSE [w2 EXCEPT !.event = <<newSwapFee>>]

\* ---------------------------------------------------------------- ownership
renounceOwnership(w, caller) ==
    LET m == onlyOwner(w, caller) IN
    IF m # "none" THEN Fail(w, m) ELSE Fail(w, "Mammon__VaultIsNotRenounceable")

transferOwnership(w, caller, newOwner) ==
    LET m == onlyOwner(w, caller) IN
    IF m # "none" THEN Fail(w, m)
    ELSE IF newOwner = ZERO_ADDRESS THEN Fail(w, "Mammon__OwnerIsZeroAddress")
    ELSE [w EXCEPT !.pendingOwner = newOwner, !.event = <<w.owner, newOwner>>]

cancelOwnershipTransfer(w, caller) ==
    LET m == onlyOwner(w, caller) IN
    IF m # "none" THEN Fail(w, m)
    ELSE IF w.pendingOwner = ZERO_ADDRESS
    THEN Fail(w, "Mammon__NoPendingOwnershipTransfer")
    ELSE [w EXCEPT !.pendingOwner = ZERO_ADDRESS,
                   !.event = <<w.owner, w.pendingOwner>>]

\* Faulty variant of acceptOwnership: any caller may take the ownership.
Mutant_acceptOwnership(w, caller) ==
    [w EXCEPT !.owner = caller, !.pendingOwner = ZERO_ADDRESS]

acceptOwnership(w, caller) ==
    IF caller # w.pendingOwner THEN Fail(w, "Mammon__NotPendingOwner")
    ELSE [w EXCEPT !.owner = w.pendingOwner, !.pendingOwner = ZERO_ADDRESS]

\* ----------------------------------------------------------- initial state
\* The state after the constructor: the pool exists with equal weights and no
\* balance, trading is off, the owner holds the tokens it will deposit, and
\* the wrapper of the yield slot already holds assets worth 3/2 per share.
ManagementFees == {0, MAX_MANAGEMENT_FEE}
MinFeeDurations == {1000}
OwnerFunds == <<300, 300, 100>>
InitialWrapperAssets == [k \in YieldSlots |-> 150]

\* The state after the constructor of a vault whose minFeeDuration is one of
\* `durations`; checkVaultParams accepts every duration but zero.
VaultConstructed(durations) ==
    /\ now = createdAt
    /\ initialized = FALSE
    /\ finalized = FALSE
    /\ oraclesEnabled = TRUE
    /\ guardian = "g1"
    /\ owner = "owner"
    /\ pendingOwner = ZERO_ADDRESS
    /\ lastFeeCheckpoint = TypeUint256Max
    /\ guardiansFee = [a \in Addrs |-> IF a = "g1" THEN Zeros(numTokens) ELSE <<>>]
    /\ guardiansFeeTotal = Zeros(numTokens)
    \* The storage slot holds 0 and the chain's clock at construction is far
    \* past one cooldown; the clock of the model counts from construction.
    /\ lastSwapFeeCheckpoint = createdAt - SWAP_FEE_COOLDOWN_PERIOD
    /\ managementFee \in ManagementFees
    /\ minFeeDuration \in durations
    /\ bal = [h \in Holders |-> IF h = "owner" THEN OwnerFunds ELSE Zeros(numTokens)]
    /\ poolBal = Zeros(numPoolTokens)
    /\ weightStart = [i \in PoolSlots |-> ONE \div numPoolTokens]
    /\ weightEnd = [i \in PoolSlots |-> ONE \div numPoolTokens]
    /\ weightT0 = createdAt
    /\ weightT1 = createdAt
    /\ swapEnabled = FALSE
    /\ swapFee = 100
    /\ oracleAnswer = [i \in PoolSlots |-> IF i = numeraireAssetIndex THEN 0 ELSE oracleUnit]
    /\ oracleUpdatedAt = [i \in PoolSlots |-> createdAt]
    /\ yAssets = InitialWrapperAssets
    /\ paused = [k \in YieldSlots |-> FALSE]
    /\ useMaxDepositAmount = [k \in YieldSlots |-> FALSE]
    /\ maxDepositAmount = [k \in YieldSlots |-> 0]
    /\ useMaxWithdrawalAmount = [k \in YieldSlots |-> FALSE]
    /\ maxWithdrawalAmount = [k \in YieldSlots |-> 0]
    /\ lastChangeBlock = createdAt
    /\ lastCall = [op |-> "constructor", caller |-> "owner", event |-> <<>>]
    /\ chargedTime = 0
    /\ guardianSince = createdAt
    /\ initializedAt = createdAt
    /\ nCalls = 0

VaultInit == VaultConstructed(MinFeeDurations)

\* -------------------------------------------------------- GuardianWhitelist
\* The addresses the whitelist is asked about.
WhitelistAddrs == {"g1", "g2", "u1", "u2"}
WhitelistOwner == "owner"

\* An empty EnumerableSet.AddressSet.
EmptySet ==
    [values |-> <<>>,
     indexes |-> [a \in WhitelistAddrs \cup {ZERO_ADDRESS} |-> 0],
     result |-> FALSE, err |-> "none"]

\* The whitelist as one record.
G == [EmptySet EXCEPT !.values = guardiansValues, !.indexes = guardiansIndexes]

\* EnumerableSet.contains, add and remove; remove moves the last value into
\* the place of the removed one and shortens the array.
contains(s, a) == s.indexes[a] # 0

add(s, a) ==
    IF ~contains(s, a)
    THEN [s EXCEPT !.values = Append(@, a),
                   !.indexes[a] = Len(s.values) + 1,
                   !.result = TRUE]
    ELSE [s EXCEPT !.result = FALSE]

remove(s, a) ==
    LET valueIndex == s.indexes[a] IN
    IF valueIndex # 0
    THEN LET toDeleteIndex == valueIndex
             lastIndex == Len(s.values)
             lastValue == s.values[lastIndex]
             s1 == IF lastIndex # toDeleteIndex
                   THEN [s EXCEPT !.values[toDeleteIndex] = lastValue,
                                  !.indexes[lastValue] = valueIndex]
                   ELSE s
         IN [s1 EXCEPT !.values = SubSeq(@, 1, Len(@) - 1),
                       !.indexes[a] = 0,
                       !.result = TRUE]
    ELSE [s EXCEPT !.result = FALSE]

addGuardianInternal(s, newGuardian) ==
    IF newGuardian = ZERO_ADDRESS THEN Fail(s, "Mammon__GuardianIsZeroAddress")
    ELSE LET r == add(s, newGuardian)
         IN IF ~r.result THEN Fail(s, "Mammon__AddressIsAlreadyGuardian") ELSE r

addGuardian(s, caller, newGuardian) ==
    IF caller # WhitelistOwner THEN Fail(s, "Ownable: caller is not the owner")
    ELSE addGuardianInternal(s, newGuardian)

\* Faulty variant of removeGuardian: the result of remove is not examined.
Mutant_removeGuardian(s, caller, oldGuardian) ==
    IF caller # WhitelistOwner THEN Fail(s, "Ownable: caller is not the owner")
    ELSE remove(s, oldGuardian)

removeGuardian(s, caller, oldGuardian) ==
    IF caller # WhitelistOwner THEN Fail(s, "Ownable: caller is not the owner")
    ELSE LET r == remove(s, oldGuardian)
         IN IF ~r.result THEN Fail(s, "Mammon__AddressIsNotGuardian") ELSE r

isGuardian(s, a) == contains(s, a)

getGuardians(s) == s.values

\* The constructor: _addGuardian for every address of the list, in order.
RECURSIVE whitelistConstructor(_, _)
whitelistConstructor(s, list) ==
    IF list = <<>> \/ ~Ok(s) THEN s
    ELSE whitelistConstructor(addGuardianInternal(s, Head(list)), Tail(list))

\* The whitelist after a successful construction with `list`.
WhitelistConstructed(list) ==
    \E r \in {whitelistConstructor(EmptySet, list)} :
        /\ Ok(r)
        /\ guardiansValues = r.values
        /\ guardiansIndexes = r.indexes
        /\ listed = {list[i] : i \in 1..Len(list)}
        /\ whitelistCall = [op |-> "constructor", caller |-> WhitelistOwner,
                            guardian |-> ZERO_ADDRESS]

\* No call of calcAdjustmentAmounts on its own.
NoAdjustment == [called |-> FALSE, input |-> <<>>, result |-> <<>>]

Init ==
    /\ VaultInit
    /\ WhitelistConstructed(<<>>)
    /\ adjustment = NoAdjustment

\* ------------------------------------------------------------------- inputs
DepositAmounts == {<<100, 100, 0>>, <<100, 100, 40>>}
MoveAmounts == {<<50, 0, 0>>, <<0, 50, 20>>}
TargetWeights == {<<5000, 5000, 0>>, <<4000, 4000, 2000>>}
EndTimes == {20000}
OracleAnswers == {0, 100, 120}
SweepAmounts == {1}
CapAmounts == {0}
NewOwners == {"g1", "g2"}
SwapFees == {150}
WhitelistCallers == {"owner", "g1"}
ConstructorLists == {<<>>, <<"g1">>, <<"g1", "g2">>, <<"g1", "g1">>, <<"g1", ZERO_ADDRESS>>}

\* ------------------------------------------------------------------ actions
InitialDeposit ==
    \E c \in Addrs, a \in DepositAmounts, tw \in TargetWeights :
        /\ nCalls < MaxCalls
        /\ Commit(initialDeposit(S, c, a, tw), "initialDeposit", c)

Deposit ==
    \E c \in Addrs, a \in MoveAmounts, risking \in BOOLEAN, ifUnchanged \in BOOLEAN :
        /\ nCalls < MaxCalls
        /\ Commit(deposit(S, c, a, risking, ifUnchanged), "deposit", c)

Withdraw ==
    \E c \in Addrs, a \in MoveAmounts, ifUnchanged \in BOOLEAN :
        /\ nCalls < MaxCalls
        /\ Commit(withdraw(S, c, a, ifUnchanged), "withdraw", c)

UpdateWeightsGradually ==
    \E c \in Addrs, tw \in TargetWeights, e \in EndTimes :
        /\ nCalls < MaxCalls
        /\ Commit(updateWeightsGradually(S, c, tw, 0, e), "updateWeightsGradually", c)

CancelWeightUpdates ==
    \E c \in Addrs :
        /\ nCalls < MaxCalls
        /\ Commit(cancelWeightUpdates(S, c), "cancelWeightUpdates", c)

EnableTradingWithWeights ==
    \E c \in Addrs, tw \in TargetWeights :
        /\ nCalls < MaxCalls
        /\ Commit(enableTradingWithWeights(S, c, tw), "enableTradingWithWeights", c)

EnableTradingWithOraclePrice ==
    \E c \in Addrs :
        /\ nCalls < MaxCalls
        /\ Commit(enableTradingWithOraclePrice(S, c), "enableTradingWithOraclePrice", c)

EnableTradingRiskingArbitrage ==
    \E c \in Addrs :
        /\ nCalls < MaxCalls
        /\ Commit(enableTradingRiskingArbitrage(S, c),
                  "enableTradingRiskingArbitrage", c)

DisableTrading ==
    \E c \in Addrs :
        /\ nCalls < MaxCalls
        /\ Commit(disableTrading(S, c), "disableTrading", c)

SetOraclesEnabled ==
    \E c \in Addrs, enabled \in BOOLEAN :
        /\ nCalls < MaxCalls
        /\ Commit(setOraclesEnabled(S, c, enabled), "setOraclesEnabled", c)

SetGuardian ==
    \E c \in Addrs, g \in Addrs \cup {ZERO_ADDRESS} :
        /\ nCalls < MaxCalls
        /\ Commit(setGuardian(S, c, g), "setGuardian", c)

ClaimGuardianFees ==
    \E c \in Addrs :
        /\ nCalls < MaxCalls
        /\ Commit(claimGuardianFees(S, c), "claimGuardianFees", c)

Finalize ==
    \E c \in Addrs :
        /\ nCalls < MaxCalls
        /\ Commit(finalize(S, c), "finalize", c)

Sweep ==
    \E c \in Addrs, t \in Slots \cup {bpt}, a \in SweepAmounts :
        /\ nCalls < MaxCalls
        /\ Commit(sweep(S, c, t, a), "sweep", c)

\* The oracle of the non-numeraire pool token reports a new answer.
OracleUpdate ==
    \E a \in OracleAnswers, i \in PoolSlots \ {numeraireAssetIndex} :
        /\ nCalls < MaxCalls
        /\ Commit([S EXCEPT !.oracleAnswer[i] = a, !.oracleUpdatedAt[i] = now],
                  "oracleUpdate", "oracle")

\* Calls of the wrapper's switches, open to anyone.
Pause ==
    \E k \in YieldSlots :
        /\ nCalls < MaxCalls
        /\ Commit(pause(S, k), "pause", "anyone")

SetMaxDepositAmount ==
    \E k \in YieldSlots, a \in CapAmounts :
        /\ nCalls < MaxCalls
        /\ Commit(setMaxDepositAmount(S, k, a, TRUE), "setMaxDepositAmount", "anyone")

SetMaxWithdrawalAmount ==
    \E k \in YieldSlots, a \in CapAmounts :
        /\ nCalls < MaxCalls
        /\ Commit(setMaxWithdrawalAmount(S, k, a, TRUE), "setMaxWithdrawalAmount",
                  "anyone")

SetSwapFee ==
    \E c \in Addrs, f \in SwapFees :
        /\ nCalls < MaxCalls
        /\ Commit(setSwapFee(S, c, f), "setSwapFee", c)

TransferOwnership ==
    \E c \in Addrs, newOwner \in NewOwners :
        /\ nCalls < MaxCalls
        /\ Commit(transferOwnership(S, c, newOwner), "transferOwnership", c)

CancelOwnershipTransfer ==
    \E c \in Addrs :
        /\ nCalls < MaxCalls
        /\ Commit(cancelOwnershipTransfer(S, c), "cancelOwnershipTransfer", c)

AcceptOwnership ==
    \E c \in Addrs :
        /\ nCalls < MaxCalls
        /\ Commit(acceptOwnership(S, c), "acceptOwnership", c)

\* The state after a successful whitelist call that ended in record r.
CommitWhitelist(r0, op, caller, a) ==
    \E r \in {r0} :
        /\ Ok(r)
        /\ guardiansValues' = r.values
        /\ guardiansIndexes' = r.indexes
        /\ listed' = IF op = "addGuardian" THEN listed \cup {a} ELSE listed \ {a}
        /\ whitelistCall' = [op |-> op, caller |-> caller, guardian |-> a]
        /\ UNCHANGED <<vaultVars, adjustment>>

AddGuardian ==
    \E c \in WhitelistCallers, a \in WhitelistAddrs \cup {ZERO_ADDRESS} :
        CommitWhitelist(addGuardian(G, c, a), "addGuardian", c, a)

RemoveGuardian ==
    \E c \in WhitelistCallers, a \in WhitelistAddrs \cup {ZERO_ADDRESS} :
        CommitWhitelist(removeGuardian(G, c, a), "removeGuardian", c, a)

\* A block is mined TimeSteps seconds later.
AdvanceTime ==
    \E dt \in TimeSteps :
        /\ now + dt <= MaxTime
        /\ now' = now + dt
        /\ UNCHANGED <<initialized, finalized, oraclesEnabled, guardian, owner,
                       pendingOwner, lastFeeCheckpoint, guardiansFee,
                       guardiansFeeTotal, lastSwapFeeCheckpoint, managementFee,
                       minFeeDuration, bal, poolBal, weightStart, weightEnd,
                       weightT0, weightT1, swapEnabled, swapFee, oracleAnswer,
                       oracleUpdatedAt, yAssets, paused, useMaxDepositAmount,
                       maxDepositAmount, useMaxWithdrawalAmount,
                       maxWithdrawalAmount, lastChangeBlock, lastCall,
                       chargedTime, guardianSince, initializedAt, nCalls,
                       whitelistVars, adjustment>>

Next ==
    \/ InitialDeposit
    \/ Deposit
    \/ Withdraw
    \/ UpdateWeightsGradually
    \/ CancelWeightUpdates
    \/ EnableTradingWithWeights
    \/ EnableTradingWithOraclePrice
    \/ EnableTradingRiskingArbitrage
    \/ DisableTrading
    \/ SetOraclesEnabled
    \/ SetGuardian
    \/ ClaimGuardianFees
    \/ Finalize
    \/ Sweep
    \/ OracleUpdate
    \/ Pause
    \/ SetMaxDepositAmount
    \/ SetMaxWithdrawalAmount
    \/ SetSwapFee
    \/ TransferOwnership
    \/ CancelOwnershipTransfer
    \/ AcceptOwnership
    \/ AdvanceTime

Spec == Init /\ [][Next]_vars

\* The whitelist on its own: any list the constructor accepts, then calls
\* of addGuardian and removeGuardian.
WhitelistInit ==
    /\ VaultInit
    /\ \E list \in ConstructorLists : WhitelistConstructed(list)
    /\ adjustment = NoAdjustment

WhitelistNext ==
    \/ AddGuardian
    \/ RemoveGuardian

WhitelistSpec == WhitelistInit /\ [][WhitelistNext]_vars

\* A vault whose guaranteed-fee period is longer than ONE / managementFee
\* seconds at the highest fee rate: the constructor accepts it, as it accepts
\* every minFeeDuration but zero.
LongFeeDurations == {(2 * ONE) \div MAX_MANAGEMENT_FEE}

LongFeeInit ==
    /\ VaultConstructed(LongFeeDurations)
    /\ WhitelistConstructed(<<>>)
    /\ adjustment = NoAdjustment

LongFeeSpec == LongFeeInit /\ [][Next]_vars

\* calcAdjustmentAmounts on its own, for a vault of two pool tokens and two
\* yield tokens: slot 3 wraps pool slot 1, slot 4 wraps pool slot 2.
TwoYieldSlots == (numPoolTokens + 1)..(numPoolTokens + 2)
TwoYieldIndexes == [k \in TwoYieldSlots |-> k - numPoolTokens]
YieldTargets == {0, 1000, 2000}
YieldBalances == {0, 30, 60}

\* The arguments of one call: target weights that sum to ONE, the underlying
\* balances of the two wrappers, the oracle prices, and the value of pool
\* holdings of 100 each plus the underlying balances at these prices.
AdjustmentInputs ==
    {[targetWeights |-> <<(ONE - a - b) \div 2, (ONE - a - b) - (ONE - a - b) \div 2, a, b>>,
      underlyingBalances |-> [k \in TwoYieldSlots |-> IF k = numPoolTokens + 1 THEN x ELSE y],
      oraclePrices |-> <<ONE, p>>,
      value |-> 100 + x + ((100 + y) * p) \div ONE] :
        a \in YieldTargets, b \in YieldTargets,
        x \in YieldBalances, y \in YieldBalances, p \in {ONE, ONE + ONE \div 4}}

CalcAdjustmentAmounts ==
    /\ ~adjustment.called
    /\ adjustment' =
          [adjustment EXCEPT
              !.called = TRUE,
              !.result = calcAdjustmentLoopOver(
                  numPoolTokens + 2, TwoYieldIndexes, adjustment.input.value,
                  adjustment.input.underlyingBalances,
                  adjustment.input.targetWeights, adjustment.input.oraclePrices, 0,
                  [depositAmounts |-> [k \in TwoYieldSlots |-> 0],
                   withdrawAmounts |-> [k \in TwoYieldSlots |-> 0]],
                  numPoolTokens + 1)]
    /\ UNCHANGED <<vaultVars, whitelistVars>>

AdjustmentInit ==
    /\ VaultInit
    /\ WhitelistConstructed(<<>>)
    /\ \E in \in AdjustmentInputs :
          adjustment = [called |-> FALSE, input |-> in, result |-> <<>>]

AdjustmentNext == CalcAdjustmentAmounts

AdjustmentSpec == AdjustmentInit /\ [][AdjustmentNext]_vars

\* ======================================================================
\* Properties
\* ======================================================================
Called(op) == lastCall.op = op

\* ---------------------------------------------------------------------- C1
WeightMutatingOps ==
    {"initialDeposit", "deposit", "withdraw", "updateWeightsGradually",
     "cancelWeightUpdates", "enableTradingWithWeights",
     "enableTradingWithOraclePrice"}

\* The weights of the current state before the correction of slot 1.
CurrentWeightsBeforeCorrection ==
    LET ub == getUnderlyingBalances(S)
        prices == getOraclePrices(S)
        value == getValue(getUnderlyingTotalBalances(S, getPoolHoldings(S), ub),
                          prices)
    IN calcWeightsBeforeCorrection(S, value, prices, ub)

\* C1: after every successful weight-mutating operation the vector that
\* getNormalizedWeights returns sums to exactly ONE and differs from the
\* uncorrected weights in slot 1 (index 0) only; the pool's own weights sum
\* to ONE as well, and so does the vector the operation emitted.
C1_NormalizedWeightsSumToOne ==
    (lastCall.op \in WeightMutatingOps /\ getNormalizedWeightsErr(S) = "none") =>
        LET nw == getNormalizedWeights(S)
            raw == CurrentWeightsBeforeCorrection
        IN /\ Len(nw) = numTokens
           /\ SeqSum(nw) = ONE
           /\ \A k \in Slots \ {1} : nw[k] = raw[k]
           /\ lastCall.op # "initialDeposit" => SeqSum(poolGetNormalizedWeights(S)) = ONE
           /\ lastCall.op \in {"deposit", "withdraw", "cancelWeightUpdates"}
                 => lastCall.event = nw

\* A deposit after which the uncorrected weights do not sum to ONE and the
\* yield slot has a positive weight.
C1_Witness ==
    /\ Called("deposit")
    /\ getNormalizedWeightsErr(S) = "none"
    /\ SeqSum(CurrentWeightsBeforeCorrection) # ONE
    /\ getNormalizedWeights(S)[numTokens] > 0

\* ---------------------------------------------------------------------- C2
\* C2: initialized and finalized never go back to false, finalized implies
\* initialized, initialDeposit succeeds only on an uninitialized vault and
\* finalize only on a vault that is not finalized; on an initialized vault
\* initialDeposit by the owner reverts with VaultIsAlreadyInitialized and on
\* a finalized vault finalize reverts.
C2_LifecycleIsMonotone ==
    /\ [](finalized => initialized)
    /\ [](initialized =>
            \A a \in DepositAmounts, tw \in TargetWeights :
                initialDeposit(S, owner, a, tw).err
                    = "Mammon__VaultIsAlreadyInitialized")
    /\ [](finalized => \A c \in Addrs : ~Ok(finalize(S, c)))
    /\ [][/\ initialized => initialized'
          /\ finalized => finalized'
          /\ (nCalls' # nCalls /\ lastCall'.op = "initialDeposit") => ~initialized
          /\ (nCalls' # nCalls /\ lastCall'.op = "finalize") => ~finalized]_vars

C2_Witness == Called("finalize") /\ initialized /\ finalized

\* ---------------------------------------------------------------------- C3
\* Every operation of the claim, called with the role it requires, reverts
\* with error e.
ActiveOnlyOpsRevertWith(e) ==
    /\ \A a \in MoveAmounts, risking \in BOOLEAN, ifUnchanged \in BOOLEAN :
          deposit(S, owner, a, risking, ifUnchanged).err = e
    /\ \A a \in MoveAmounts, ifUnchanged \in BOOLEAN :
          withdraw(S, owner, a, ifUnchanged).err = e
    /\ \A tw \in TargetWeights, t \in EndTimes :
          updateWeightsGradually(S, guardian, tw, 0, t).err = e
    /\ cancelWeightUpdates(S, guardian).err = e
    /\ \A c \in Addrs : claimGuardianFees(S, c).err = e
    /\ finalize(S, owner).err = e

ActiveOnlyOps ==
    {"deposit", "withdraw", "updateWeightsGradually", "cancelWeightUpdates",
     "claimGuardianFees", "finalize"}

\* C3: before initialDeposit the operations revert with VaultNotInitialized,
\* after finalize with VaultIsFinalized, and each of them succeeds only in a
\* state that is initialized and not finalized.
C3_ActiveOnlyOperations ==
    /\ [](~initialized => ActiveOnlyOpsRevertWith("Mammon__VaultNotInitialized"))
    /\ [](finalized => ActiveOnlyOpsRevertWith("Mammon__VaultIsFinalized"))
    /\ [][(nCalls' # nCalls /\ lastCall'.op \in ActiveOnlyOps)
             => (initialized /\ ~finalized)]_vars

C3_Witness ==
    /\ finalized
    /\ claimGuardianFees(S, guardian).err = "Mammon__VaultIsFinalized"
    /\ \E a \in Addrs : Len(guardiansFee[a]) > 0 /\ SeqSum(guardiansFee[a]) > 0

\* ---------------------------------------------------------------------- C4
\* C4: a successful finalize leaves trading disabled, the pool empty and the
\* holdings zero in every slot; the vault keeps exactly guardiansFeeTotal of
\* each token, and the owner has received, per slot, what the vault and the
\* pool held minus the outstanding fees after the guaranteed fee was locked.
C4_FinalizeReturnsFunds ==
    \A c \in Addrs :
        LET r == finalize(S, c) IN
        Ok(r) =>
            /\ r.finalized
            /\ ~r.swapEnabled
            /\ r.poolBal = Zeros(numPoolTokens)
            /\ ~getHoldingsReverts(r)
            /\ getHoldings(r) = Zeros(numTokens)
            /\ \A k \in Slots :
                  /\ r.bal[Vault][k] = r.guardiansFeeTotal[k]
                  /\ r.bal[owner][k] - bal[owner][k]
                        = bal[Vault][k]
                          + (IF k \in PoolSlots THEN poolBal[k] ELSE 0)
                          - r.guardiansFeeTotal[k]
                  /\ r.event[k] = r.bal[owner][k] - bal[owner][k]

\* The state after a finalize that locked a fee and returned funds.
C4_Witness ==
    /\ Called("finalize")
    /\ ~swapEnabled
    /\ \E k \in Slots : guardiansFeeTotal[k] > 0 /\ lastCall.event[k] > 0
    /\ bal[Vault] = guardiansFeeTotal

\* ---------------------------------------------------------------------- C5
\* The state in which the ledger of caller c is read by claimGuardianFees.
AtClaim(c) == IF c = guardian THEN lockGuardianFees(S, FALSE) ELSE S

\* C5: a successful claimGuardianFees pays the caller, per slot, exactly the
\* ledger entry at call time (after the accrual when the caller is the
\* guardian); afterwards the caller's ledger holds no amount and the
\* outstanding total of each slot is lower by the amount paid.
C5_ClaimPaysExactlyTheLedger ==
    \A c \in Addrs :
        LET r == claimGuardianFees(S, c) IN
        Ok(r) =>
            LET ledger == AtClaim(c).guardiansFee[c] IN
            /\ r.event = ledger
            /\ \A k \in Slots :
                  /\ r.bal[c][k] - bal[c][k] = ledger[k]
                  /\ bal[Vault][k] + (IF k \in PoolSlots THEN poolBal[k] ELSE 0)
                        - (r.bal[Vault][k]
                           + (IF k \in PoolSlots THEN r.poolBal[k] ELSE 0))
                        = ledger[k]
                  /\ r.guardiansFeeTotal[k] = AtClaim(c).guardiansFeeTotal[k] - ledger[k]
            /\ r.guardiansFee[c] \in {<<>>, Zeros(numTokens)}

\* The state after a claim that paid a positive amount.
C5_Witness ==
    /\ Called("claimGuardianFees")
    /\ SeqSum(lastCall.event) > 0
    /\ guardiansFee[lastCall.caller] \in {<<>>, Zeros(numTokens)}

\* ---------------------------------------------------------------------- C6
\* C6 as the specification states it: when finalize has succeeded on a vault
\* with a management fee, the fee indexes of all accruals sum to at least
\* minFeeDuration.
C6_ChargedForMinFeeDuration ==
    (Called("finalize") /\ managementFee > 0) => chargedTime >= minFeeDuration

\* What the contract charges: the time from initialDeposit to finalize plus
\* the time left until createdAt + minFeeDuration.
C6_ChargedSinceInitialDeposit ==
    (Called("finalize") /\ managementFee > 0) =>
        chargedTime = Max(now, createdAt + minFeeDuration) - initializedAt

\* ---------------------------------------------------------------------- C7
\* C7 (amended): while createdAt + minFeeDuration is in the future, finalize
\* charges the elapsed time plus the time left until that point, whereas
\* setGuardian and claimGuardianFees charge the elapsed time only.
C7_TopUpOnFinalizeOnly ==
    (initialized /\ ~finalized /\ managementFee > 0
     /\ now < createdAt + minFeeDuration) =>
        LET elapsed == now - lastFeeCheckpoint
            topUp == createdAt + minFeeDuration - now
        IN /\ LET r == finalize(S, owner)
              IN Ok(r) => r.chargedTime - chargedTime = elapsed + topUp
           /\ \A g \in Addrs :
                 LET r == setGuardian(S, owner, g)
                 IN Ok(r) => r.chargedTime - chargedTime = elapsed
           /\ LET r == claimGuardianFees(S, guardian)
              IN Ok(r) => r.chargedTime - chargedTime = elapsed

\* C7 as the specification states it: the top-up is charged by finalize,
\* by setGuardian and by claimGuardianFees.
C7_TopUpOnEveryLock ==
    (initialized /\ ~finalized /\ managementFee > 0
     /\ now < createdAt + minFeeDuration) =>
        LET elapsed == now - lastFeeCheckpoint
            topUp == createdAt + minFeeDuration - now
        IN /\ LET r == finalize(S, owner)
              IN Ok(r) => r.chargedTime - chargedTime = elapsed + topUp
           /\ \A g \in Addrs :
                 LET r == setGuardian(S, owner, g)
                 IN Ok(r) => r.chargedTime - chargedTime = elapsed + topUp
           /\ LET r == claimGuardianFees(S, guardian)
              IN Ok(r) => r.chargedTime - chargedTime = elapsed + topUp

\* A guardian change before createdAt + minFeeDuration that charged the
\* elapsed time only.
C7_Witness ==
    /\ Called("setGuardian")
    /\ initialized /\ ~finalized /\ managementFee > 0
    /\ now < createdAt + minFeeDuration
    /\ chargedTime > 0
    /\ chargedTime = now - initializedAt

\* ---------------------------------------------------------------------- C8
\* The scenario of C8: the largest fee, minFeeDuration of 1000 seconds, and
\* a vault that can be finalized 500 seconds after its creation.
C8_Scenario ==
    /\ initialized /\ ~finalized
    /\ managementFee = MAX_MANAGEMENT_FEE
    /\ minFeeDuration = 1000
    /\ now = createdAt + 500

\* C8 (amended): in the scenario the fee index of finalize is the time since
\* lastFeeCheckpoint plus the 500 seconds left; it is 1000 exactly when
\* lastFeeCheckpoint is createdAt, and every slot is charged
\* holdings * feeIndex * managementFee / ONE.
C8_FeeIndexOfEarlyFinalize ==
    C8_Scenario =>
        LET feeIndex == getFeeIndex(S, TRUE)
            r == finalize(S, owner)
        IN /\ feeIndex = (now - lastFeeCheckpoint) + 500
           /\ (feeIndex = 1000) <=> (lastFeeCheckpoint = createdAt)
           /\ Ok(r) =>
                 /\ r.chargedTime - chargedTime = feeIndex
                 /\ \A k \in Slots :
                       r.guardiansFeeTotal[k] - guardiansFeeTotal[k]
                          = (getHoldings(S)[k] * feeIndex * MAX_MANAGEMENT_FEE)
                                \div ONE

\* C8 as the specification states it: in the scenario the fee index of
\* finalize is exactly 1000.
C8_FeeIndexIsExactly1000 ==
    C8_Scenario => getFeeIndex(S, TRUE) = 1000

\* The state after a finalize at createdAt + 500 whose fee index was 1000.
C8_Witness ==
    /\ Called("finalize")
    /\ managementFee = MAX_MANAGEMENT_FEE /\ minFeeDuration = 1000
    /\ now = createdAt + 500
    /\ initializedAt = createdAt
    /\ chargedTime = 1000
    /\ guardiansFeeTotal[1] > 0

\* ---------------------------------------------------------------------- C9
\* The fee of every slot for the time since lastFeeCheckpoint.
FeeDue ==
    LET elapsed == IF now > lastFeeCheckpoint THEN now - lastFeeCheckpoint ELSE 0
    IN [k \in Slots |-> (getHoldings(S)[k] * elapsed * managementFee) \div ONE]

\* C9: a successful setGuardian on an initialized, non-finalized vault credits
\* the fee of the time since lastFeeCheckpoint to the outgoing guardian and
\* nothing to the incoming one, and moves the checkpoint to now; and in every
\* such state the time not yet charged starts no earlier than the appointment
\* of the current guardian.
C9_OutgoingGuardianIsSettled ==
    (initialized /\ ~finalized) =>
        /\ managementFee > 0 => lastFeeCheckpoint >= guardianSince
        /\ \A g \in Addrs :
              LET r == setGuardian(S, owner, g) IN
              Ok(r) =>
                 /\ r.guardian = g
                 /\ r.guardiansFee[guardian]
                       = [k \in Slots |-> guardiansFee[guardian][k] + FeeDue[k]]
                 /\ g # guardian =>
                       r.guardiansFee[g] = IF Len(guardiansFee[g]) = 0
                                           THEN Zeros(numTokens)
                                           ELSE guardiansFee[g]
                 /\ managementFee > 0 => r.lastFeeCheckpoint = now
                 /\ r.guardianSince = now

\* A guardian change that credited a fee to the outgoing guardian g1 and
\* none to the incoming guardian g2.
C9_Witness ==
    /\ Called("setGuardian")
    /\ initialized /\ ~finalized
    /\ guardian = "g2"
    /\ Len(guardiansFee["g1"]) = numTokens
    /\ SeqSum(guardiansFee["g1"]) > 0
    /\ guardiansFee["g2"] = Zeros(numTokens)
    /\ lastFeeCheckpoint = now

\* --------------------------------------------------------------------- C10
\* A replaced guardian whose ledger has not been claimed, and an address with
\* no ledger (never guardian, or replaced and paid).
HasLedger(a) == Len(guardiansFee[a]) > 0
Replaced(a) == a # guardian /\ HasLedger(a)

\* What C10 says of a claim by a replaced guardian a in the current state:
\* it pays the ledger and deletes it, and a second claim reverts with
\* NoAvailableFeeForCaller.
ReplacedGuardianClaimsOnce(a) ==
    LET r == claimGuardianFees(S, a) IN
    /\ (\A k \in Slots : bal[Vault][k] >= guardiansFee[a][k]) => Ok(r)
    /\ r.err \in {"none", "ERC20: transfer amount exceeds balance"}
    /\ Ok(r) =>
          /\ \A k \in Slots : r.bal[a][k] - bal[a][k] = guardiansFee[a][k]
          /\ r.guardiansFee[a] = <<>>
          /\ claimGuardianFees(r, a).err = "Mammon__NoAvailableFeeForCaller"

\* The replacement of the guardian keeps the ledger of the outgoing guardian:
\* no entry is removed or lowered.
ReplacementKeepsLedger ==
    \A g \in Addrs \ {guardian} :
        LET r == setGuardian(S, owner, g) IN
        Ok(r) =>
            /\ Len(r.guardiansFee[guardian]) = numTokens
            /\ \A k \in Slots : r.guardiansFee[guardian][k] >= guardiansFee[guardian][k]
            /\ (~initialized \/ finalized) =>
                  r.guardiansFee[guardian] = guardiansFee[guardian]

RoundTripAmounts == MoveAmounts \cup {<<50, 50, 0>>, <<0, 0, 5>>}

\* The state after a deposit of amounts a (one of the four entry points)
\* immediately followed by a withdraw of the same amounts.
RoundTrip(a, risking) == withdraw(deposit(S, owner, a, risking, FALSE), owner, a, FALSE)
RoundTripSucceeds(a, risking) ==
    Ok(deposit(S, owner, a, risking, FALSE)) /\ Ok(RoundTrip(a, risking))

\* C11 as the specification states it: with managementFee = 0 the round trip
\* leaves the holdings of every slot as they were.
C11_RoundTripRestoresAllHoldings ==
    managementFee = 0 =>
        \A a \in RoundTripAmounts, risking \in BOOLEAN :
            RoundTripSucceeds(a, risking) =>
                getHoldings(RoundTrip(a, risking)) = getHoldings(S)

\* C11 (amended): with managementFee = 0 the round trip restores the holdings
\* of every pool slot.  A yield slot whose token is not withdrawable receives
\* a[k] shares on deposit and pays a[k] assets on withdraw: it keeps the
\* deposited shares minus the shares the wrapper burns for a[k] assets, and
\* all of them when a[k] is worth less than minYieldActionThreshold.
C11_RoundTripRestoresPoolHoldings ==
    managementFee = 0 =>
        \A a \in RoundTripAmounts, risking \in BOOLEAN :
            RoundTripSucceeds(a, risking) =>
                LET d == deposit(S, owner, a, risking, FALSE)
                    r == RoundTrip(a, risking)
                    u(k) == underlyingIndexes[k]
                    worth(k) == IF u(k) = numeraireAssetIndex THEN a[k]
                                ELSE (a[k] * getOraclePrices(d)[u(k)]) \div ONE
                IN /\ \A i \in PoolSlots : getHoldings(r)[i] = getHoldings(S)[i]
                   /\ \A k \in YieldSlots :
                         /\ getHoldings(d)[k] = getHoldings(S)[k] + a[k]
                         /\ ~isWithdrawable[k] =>
                               getHoldings(r)[k] =
                                  getHoldings(d)[k]
                                  - (IF a[k] = 0 \/ worth(k) < minYieldActionThreshold
                                     THEN 0 ELSE previewWithdraw(d, k, a[k]))
                         /\ isWithdrawable[k] => getHoldings(r)[k] = getHoldings(S)[k]

\* The state after initialDeposit, a deposit of <<0, 50, 20>> and a withdraw of
\* <<0, 50, 20>> with managementFee = 0: the pool holds what it held after
\* initialDeposit, the wrapper has paid 20 assets and burnt fewer than the 20
\* shares deposited.
C11_Witness ==
    /\ Called("withdraw")
    /\ managementFee = 0
    /\ nCalls = 3
    /\ poolBal = <<100, 100>>
    /\ yAssets[3] = InitialWrapperAssets[3] - 20
    /\ bal[owner][3] = OwnerFunds[3] - 20
    /\ getHoldings(S)[3] = 6

\* --------------------------------------------------------------------- C12
\* Requests examined: targets near and far from the current weights, over the
\* shortest window allowed and over a longer one.
RatioTargets == TargetWeights \cup {<<9800, 200, 0>>, <<200, 9800, 0>>, <<200, 7800, 2000>>}
RatioDurations == {MINIMUM_WEIGHT_CHANGE_DURATION, 20000, 100000}

\* The vault at the point where updateWeightsGradually checks the ratio: the
\* yield tokens and the pool weights are adjusted, targetPoolWeights is known.
BeforeRatioCheck(tw) ==
    LET w1 == adjustYieldTokens(S, getPoolHoldings(S), tw)
    IN IF Ok(w1) THEN adjustPoolWeights(w1, getPoolHoldings(S), tw)
       ELSE [w |-> w1, targetPoolWeights |-> <<>>]

\* Some pool token's larger weight times ONE over its smaller weight exceeds
\* MAX_WEIGHT_CHANGE_RATIO times the duration.
RatioExceeded(current, target, duration) ==
    \E i \in PoolSlots :
        (Max(current[i], target[i]) * ONE) \div Min(current[i], target[i])
            > MAX_WEIGHT_CHANGE_RATIO * duration

\* C12: a request of the guardian that passes the checks made before the
\* ratio check reverts with WeightChangeRatioIsAboveMax exactly when the ratio
\* of some pool token exceeds the maximum; the reverting call changes nothing,
\* so every schedule left by a successful updateWeightsGradually respects the
\* maximum and a successful call was never one whose ratio was exceeded.
C12_RatioAboveMaxIsRejected ==
    /\ (initialized /\ ~finalized) =>
          \A tw \in RatioTargets, d \in RatioDurations :
              LET r == updateWeightsGradually(S, guardian, tw, now, now + d)
                  a == BeforeRatioCheck(tw)
                  current == poolGetNormalizedWeights(a.w)
                  reached == /\ Ok(a.w)
                             /\ \A i \in PoolSlots :
                                   current[i] > 0 /\ a.targetPoolWeights[i] > 0
                  exceeded == reached
                              /\ RatioExceeded(current, a.targetPoolWeights, d)
              IN /\ exceeded => r.err = "Mammon__WeightChangeRatioIsAboveMax"
                 /\ r.err = "Mammon__WeightChangeRatioIsAboveMax" => exceeded
                 /\ Ok(r) => ~RatioExceeded(r.weightStart, r.weightEnd,
                                            r.weightT1 - r.weightT0)
    /\ Called("updateWeightsGradually") =>
          ~RatioExceeded(weightStart, weightEnd, weightT1 - weightT0)

\* A state in which the guardian's request for weights 0.98/0.02 over the
\* shortest window is rejected for its ratio, while the same request over a
\* window of 100000 seconds is accepted.
C12_Witness ==
    /\ initialized /\ ~finalized
    /\ updateWeightsGradually(S, guardian, <<9800, 200, 0>>, now,
                              now + MINIMUM_WEIGHT_CHANGE_DURATION).err
          = "Mammon__WeightChangeRatioIsAboveMax"
    /\ Ok(updateWeightsGradually(S, guardian, <<9800, 200, 0>>, now, now + 100000))

\* --------------------------------------------------------------------- C13
\* Start and end times of the requests examined: in the past, now, in the
\* future, and on both sides of the uint32 limit and of the minimum duration.
ScheduleStarts == {0, now, now + 100, TypeUint32Max, TypeUint32Max + 1}
ScheduleEnds == {0, now, now + 99, now + MINIMUM_WEIGHT_CHANGE_DURATION - 1, now + MINIMUM_WEIGHT_CHANGE_DURATION, now + MINIMUM_WEIGHT_CHANGE_DURATION + 100, TypeUint32Max, TypeUint32Max + 1}

\* C13: updateWeightsGradually rejects a startTime or an endTime above
\* 2^32 - 1, replaces startTime by the later of now and startTime, rejects a
\* start after endTime with WeightChangeEndBeforeStart and a window shorter
\* than the minimum with WeightChangeDurationIsBelowMin; every schedule handed
\* to the pool starts no earlier than now and lasts at least the minimum.
C13_ScheduleTimesAreValidated ==
    /\ (initialized /\ ~finalized) =>
          \A tw \in TargetWeights, s \in ScheduleStarts, e \in ScheduleEnds :
              LET r == updateWeightsGradually(S, guardian, tw, s, e)
                  start == IF s > now THEN s ELSE now
              IN /\ s > TypeUint32Max
                       => r.err = "Mammon__WeightChangeStartTimeIsAboveMax"
                 /\ (s <= TypeUint32Max /\ e > TypeUint32Max)
                       => r.err = "Mammon__WeightChangeEndTimeIsAboveMax"
                 /\ (s <= TypeUint32Max /\ e <= TypeUint32Max /\ start > e)
                       => r.err = "Mammon__WeightChangeEndBeforeStart"
                 /\ (s <= TypeUint32Max /\ e <= TypeUint32Max /\ start <= e
                        /\ e - start < MINIMUM_WEIGHT_CHANGE_DURATION)
                       => r.err = "Mammon__WeightChangeDurationIsBelowMin"
                 /\ Ok(r) => /\ r.weightT0 = start
                             /\ r.weightT1 = e
                             /\ r.weightT0 >= now
                             /\ r.weightT1 - r.weightT0
                                   >= MINIMUM_WEIGHT_CHANGE_DURATION
    /\ Called("updateWeightsGradually") =>
          weightT1 - weightT0 >= MINIMUM_WEIGHT_CHANGE_DURATION

\* A schedule requested with startTime 0 after time has passed: it starts at
\* the time of the call.
C13_Witness ==
    /\ Called("updateWeightsGradually")
    /\ now > 0 /\ weightT0 = now
    /\ weightT1 - weightT0 >= MINIMUM_WEIGHT_CHANGE_DURATION
    /\ updateWeightsGradually(S, guardian, <<5000, 5000, 0>>, now + 100, now + 99).err
          = "Mammon__WeightChangeEndBeforeStart"

\* --------------------------------------------------------------------- C14
\* The worked scenario: weights 0.5/0.5, 100/100 in the pool, nothing in the
\* yield token, the initial deposit being the only call made since deployment
\* and the oracle prices being fresh.
EvenVault ==
    /\ Called("initialDeposit") /\ nCalls = 1
    /\ checkOracleStatus(S, getOracleUpdatedAt(S)) = "none"
    /\ poolBal = <<100, 100>>
    /\ getHoldings(S) = <<100, 100, 0>>
    /\ getNormalizedWeights(S) = <<5000, 5000, 0>>

ScenarioTarget == <<7000, 3000, 0>>

\* Equal up to one unit of the last place.
Near(weights, expected) ==
    \A k \in Slots : /\ weights[k] - expected[k] <= 1
                     /\ expected[k] - weights[k] <= 1

\* The scenario with a window of `window` seconds: the request is accepted,
\* the weights reach the target at the end of the window, and a cancellation
\* at half of the window freezes them near 0.6/0.4 from then on.
ScenarioHolds(window) ==
    LET r == updateWeightsGradually(S, guardian, ScenarioTarget, now, now + window)
        half == [r EXCEPT !.now = now + (window \div 2)]
        c == cancelWeightUpdates(half, guardian)
    IN /\ Ok(r)
       /\ \A t \in {now + window, now + window + 1000} :
             Near(getNormalizedWeights([r EXCEPT !.now = t]), ScenarioTarget)
       /\ Ok(c)
       /\ \A t \in {half.now, half.now + 1, now + window, now + window + 1000} :
             Near(getNormalizedWeights([c EXCEPT !.now = t]), <<6000, 4000, 0>>)

\* C14 as stated: the scenario with the 5000-second window.
C14_FiveThousandSecondWindow == EvenVault => ScenarioHolds(5000)

\* C14: in the even vault a change to 0.7/0.3 over 5000 seconds is rejected
\* with WeightChangeDurationIsBelowMin, the window being shorter than
\* MINIMUM_WEIGHT_CHANGE_DURATION; over 20000 seconds it is accepted, the
\* weights are 0.7/0.3 within rounding once the window has elapsed, and a
\* cancelWeightUpdates at half of the window freezes them at 0.6/0.4 within
\* rounding, where they stay.
C14_ScenarioWithAllowedWindow ==
    EvenVault =>
        /\ updateWeightsGradually(S, guardian, ScenarioTarget, now,
                                  now + 5000).err
              = "Mammon__WeightChangeDurationIsBelowMin"
        /\ ScenarioHolds(20000)

\* The even vault, with the change over 20000 seconds half done at 0.6/0.4.
C14_Witness ==
    /\ EvenVault
    /\ LET r == updateWeightsGradually(S, guardian, ScenarioTarget, now,
                                       now + 20000)
       IN /\ Ok(r)
          /\ r.weightEnd = <<7000, 3000>>
          /\ getNormalizedWeights([r EXCEPT !.now = now + 10000]) = <<6000, 4000, 0>>

\* --------------------------------------------------------------------- C15
\* Times at which the weights are read again after an operation.
LaterTimes(w) == {w.now, w.now + 1, w.now + 500, w.weightT1, w.weightT1 + 1, now + 20000, now + 100000}

\* The pool weights and the vault's normalized weights of w do not move as
\* time passes.
WeightsStay(w) ==
    \A t \in LaterTimes(w) :
        /\ t >= w.now =>
              /\ poolGetNormalizedWeights([w EXCEPT !.now = t])
                    = poolGetNormalizedWeights(w)
              /\ getNormalizedWeights([w EXCEPT !.now = t]) = getNormalizedWeights(w)

\* A gradual change is in progress and has moved the weights away from where
\* they started, without reaching the targets.
ChangeInProgress ==
    /\ initialized /\ ~finalized
    /\ weightT0 < now /\ now < weightT1
    /\ poolGetNormalizedWeights(S) # weightStart
    /\ poolGetNormalizedWeights(S) # weightEnd

\* C15: a cancelWeightUpdates made by the guardian sets the pool weights to
\* the weights the pool reports at that time (renormalized to sum ONE), during
\* a gradual change its interpolated weights and neither the weights it
\* started from nor its targets; the pool's weights and getNormalizedWeights
\* then keep their values as time passes.
C15_CancelFreezesCurrentWeights ==
    /\ (initialized /\ ~finalized) =>
          LET c == cancelWeightUpdates(S, guardian)
              current == poolGetNormalizedWeights(S)
          IN Ok(c) =>
               /\ poolGetNormalizedWeights(c)
                     = normalizeWeights(current, SeqSum(current))
               /\ \A i \in PoolSlots :
                     /\ poolGetNormalizedWeights(c)[i] - current[i] <= 1
                     /\ current[i] - poolGetNormalizedWeights(c)[i] <= 1
               /\ ChangeInProgress =>
                     /\ poolGetNormalizedWeights(c) # weightStart
                     /\ poolGetNormalizedWeights(c) # weightEnd
               /\ c.event = getNormalizedWeights(c)
               /\ WeightsStay(c)
    /\ Called("cancelWeightUpdates") =>
          /\ weightT0 = weightT1
          /\ poolGetNormalizedWeights(S) = weightEnd
          /\ WeightsStay(S)

\* A cancellation during a gradual change that has moved the weights.
C15_Witness ==
    /\ ChangeInProgress
    /\ Called("updateWeightsGradually")
    /\ Ok(cancelWeightUpdates(S, guardian))
    /\ poolGetNormalizedWeights(cancelWeightUpdates(S, guardian))
          = poolGetNormalizedWeights(S)

\* --------------------------------------------------------------------- C16
\* The results of every deposit and withdraw variant the owner can call now.
MovesOfOwner ==
    {deposit(S, owner, a, risking, ifUnchanged) :
        a \in MoveAmounts, risking \in BOOLEAN, ifUnchanged \in BOOLEAN}
    \cup {withdraw(S, owner, a, ifUnchanged) : a \in MoveAmounts, ifUnchanged \in BOOLEAN}

\* The schedule of w is instantaneous: the pool reports its end weights from
\* w.now on.
ScheduleReplaced(w) ==
    /\ w.weightT0 = w.now /\ w.weightT1 = w.now
    /\ poolGetNormalizedWeights(w) = w.weightEnd
    /\ SeqSum(w.weightEnd) = ONE

\* C16: every successful deposit or withdraw, of any variant, replaces the
\* pool's schedule by an instantaneous one at the time of the call, so that a
\* gradual change in progress is cancelled: the pool weights and
\* getNormalizedWeights keep the values set by the call as time passes, and
\* the event of the call reports them.
C16_DepositAndWithdrawCancelSchedule ==
    /\ \A r \in MovesOfOwner :
          Ok(r) => /\ ScheduleReplaced(r)
                   /\ WeightsStay(r)
                   /\ r.event = getNormalizedWeights(r)
    /\ (Called("deposit") \/ Called("withdraw")) =>
          /\ weightT0 = weightT1
          /\ poolGetNormalizedWeights(S) = weightEnd
          /\ WeightsStay(S)

\* A gradual change in progress during which a deposit and a withdraw succeed
\* and leave weights other than the targets of the change.
C16_Witness ==
    /\ ChangeInProgress
    /\ Called("updateWeightsGradually")
    /\ \E a \in MoveAmounts :
          /\ Ok(deposit(S, owner, a, TRUE, FALSE))
          /\ deposit(S, owner, a, TRUE, FALSE).weightEnd # weightEnd
    /\ \E a \in MoveAmounts :
          /\ Ok(withdraw(S, owner, a, FALSE))
          /\ withdraw(S, owner, a, FALSE).weightEnd # weightEnd

\* --------------------------------------------------------------------- C17
\* Some non-numeraire oracle was updated more than maxOracleDelay ago.
Stale(w) ==
    \E i \in PoolSlots :
        i # numeraireAssetIndex /\ w.now - w.oracleUpdatedAt[i] > maxOracleDelay

\* The vaults examined: the present one, and the one left by a withdrawal of
\* most of the pool's holdings, at once and 600 seconds later.
Probes ==
    LET low == withdraw(S, owner, <<80, 80, 0>>, FALSE)
    IN {S} \cup (IF Ok(low) THEN {low, [low EXCEPT !.now = now + 600]} ELSE {})

\* Amounts of the deposits examined, below and above minSignificantDepositValue.
PricedAmounts == MoveAmounts \cup {<<100, 100, 0>>, <<0, 150, 0>>, <<10, 0, 0>>}

\* The oracle and the spot prices can be computed and are positive.
PricesAvailable(w) ==
    /\ getOraclePricesErr(w) = "none"
    /\ getSpotPricesErr(w, getPoolHoldings(w)) = "none"
    /\ ~getHoldingsReverts(w)
    /\ \A i \in PoolSlots : getSpotPrices(w, getPoolHoldings(w))[i] > 0

\* For some non-numeraire pool slot the larger of the oracle and the spot
\* price over the smaller exceeds maxOracleSpotDivergence.
Diverges(w) ==
    \E i \in PoolSlots :
        /\ i # numeraireAssetIndex
        /\ LET o == getOraclePrices(w)[i]
               s == getSpotPrices(w, getPoolHoldings(w))[i]
               larger == IF o > s THEN o ELSE s
               smaller == IF o > s THEN s ELSE o
           IN (larger * ONE) \div smaller > maxOracleSpotDivergence

\* The price type the rule gives for a deposit of `amounts` into w ("FAIL"
\* when the prices diverge).
ExpectedPriceType(w, amounts) ==
    LET spot == getSpotPrices(w, getPoolHoldings(w))
        totals == getUnderlyingTotalBalances(w, getPoolHoldings(w),
                                             getUnderlyingBalances(w))
    IN IF getValue(totals, spot) < minReliableVaultValue THEN "ORACLE"
       ELSE IF Diverges(w) THEN "FAIL"
       ELSE IF getValue(amounts, spot) < minSignificantDepositValue THEN "SPOT"
       ELSE "ORACLE"

\* A deposit of `amounts` into w through deposit or depositIfBalanceUnchanged
\* gets as far as the choice of the prices, which are the oracle's.
OraclePriced(w, amounts, ifUnchanged) ==
    /\ w.initialized /\ ~w.finalized
    /\ ~(ifUnchanged /\ w.lastChangeBlock = w.now)
    /\ Ok(lockGuardianFees(w, FALSE))
    /\ PricesAvailable(lockGuardianFees(w, FALSE))
    /\ ExpectedPriceType(lockGuardianFees(w, FALSE), amounts) = "ORACLE"

\* C17: with the oracles enabled and every oracle price valid, a stale
\* non-numeraire oracle makes enableTradingWithOraclePrice and every deposit
\* priced by oracle revert with OracleIsDelayedBeyondMax; none of these
\* operations succeeds while an oracle is stale.
C17_StaleOracleIsRejected ==
    \A w \in Probes :
        /\ (w.initialized /\ w.oraclesEnabled /\ Stale(w)
               /\ getOraclePricesErr(w) = "none") =>
              /\ enableTradingWithOraclePrice(w, w.guardian).err
                    = "Mammon__OracleIsDelayedBeyondMax"
              /\ \A a \in PricedAmounts, ifUnchanged \in BOOLEAN :
                    OraclePriced(w, a, ifUnchanged) =>
                        deposit(w, w.owner, a, FALSE, ifUnchanged).err
                            = "Mammon__OracleIsDelayedBeyondMax"
        /\ \A c \in Addrs : Ok(enableTradingWithOraclePrice(w, c)) => ~Stale(w)
        /\ \A a \in PricedAmounts, ifUnchanged \in BOOLEAN :
              (OraclePriced(w, a, ifUnchanged)
                  /\ Ok(deposit(w, w.owner, a, FALSE, ifUnchanged))) => ~Stale(w)

\* A vault with a valid but stale oracle price, in which the guardian's
\* enableTradingWithOraclePrice and an oracle-priced deposit are rejected for
\* the delay.
C17_Witness ==
    /\ initialized /\ ~finalized /\ oraclesEnabled /\ Stale(S)
    /\ getOraclePricesErr(S) = "none"
    /\ OraclePriced(S, <<100, 100, 0>>, FALSE)
    /\ deposit(S, owner, <<100, 100, 0>>, FALSE, FALSE).err
          = "Mammon__OracleIsDelayedBeyondMax"
    /\ enableTradingWithOraclePrice(S, guardian).err
          = "Mammon__OracleIsDelayedBeyondMax"

\* --------------------------------------------------------------------- C18
\* A deposit of `amounts` into w through deposit or depositIfBalanceUnchanged
\* gets as far as the choice of the prices.
ReachesPricing(w, ifUnchanged) ==
    /\ w.initialized /\ ~w.finalized
    /\ ~(ifUnchanged /\ w.lastChangeBlock = w.now)
    /\ Ok(lockGuardianFees(w, FALSE))
    /\ PricesAvailable(lockGuardianFees(w, FALSE))

\* C18: for deposit and depositIfBalanceUnchanged the prices are the oracle's
\* when the vault's value is below minReliableVaultValue; otherwise the call
\* fails with OracleSpotPriceDivergenceExceedsMax when the oracle and the spot
\* price of some non-numeraire pool token diverge by more than
\* maxOracleSpotDivergence; otherwise the prices are the spot prices when the
\* deposit's value at spot prices is below minSignificantDepositValue, and the
\* oracle's when it is not.  A deposit priced at spot equals the same deposit
\* made with the RiskingArbitrage variant.
C18_PriceTypeOfDeposit ==
    \A w \in Probes, a \in PricedAmounts, ifUnchanged \in BOOLEAN :
        ReachesPricing(w, ifUnchanged) =>
            LET w1 == lockGuardianFees(w, FALSE)
                det == getDeterminedPrices(w1, a)
                expected == ExpectedPriceType(w1, a)
                r == deposit(w, w.owner, a, FALSE, ifUnchanged)
            IN /\ expected = "ORACLE" =>
                     /\ det.priceType = "ORACLE"
                     /\ det.prices = getOraclePrices(w1)
                     /\ det.err = checkOracleStatus(w1, getOracleUpdatedAt(w1))
                     /\ det.err # "none" => r.err = det.err
               /\ expected = "FAIL" =>
                     /\ det.err = "Mammon__OracleSpotPriceDivergenceExceedsMax"
                     /\ r.err = "Mammon__OracleSpotPriceDivergenceExceedsMax"
               /\ expected = "SPOT" =>
                     /\ det.err = "none"
                     /\ det.priceType = "SPOT"
                     /\ det.prices = getSpotPrices(w1, getPoolHoldings(w1))
                     /\ r = deposit(w, w.owner, a, TRUE, ifUnchanged)

\* A vault whose oracle price has moved away from the spot price: a deposit is
\* rejected for the divergence, while the same deposit into the vault left by
\* a large withdrawal is priced by oracle.
C18_Witness ==
    /\ ReachesPricing(S, FALSE)
    /\ Called("oracleUpdate")
    /\ ExpectedPriceType(lockGuardianFees(S, FALSE), <<50, 0, 0>>) = "FAIL"
    /\ deposit(S, owner, <<50, 0, 0>>, FALSE, FALSE).err
          = "Mammon__OracleSpotPriceDivergenceExceedsMax"
    /\ \E w \in Probes :
          /\ ReachesPricing(w, FALSE)
          /\ ExpectedPriceType(lockGuardianFees(w, FALSE), <<50, 0, 0>>) = "ORACLE"
          /\ Ok(deposit(w, owner, <<50, 0, 0>>, FALSE, FALSE))

\* --------------------------------------------------------------------- C19
\* Target weights of the rebalancing calls examined.
RebalanceTargets == TargetWeights \cup {<<4200, 4000, 1800>>, <<4850, 4850, 300>>}

\* The amount by which updateWeightsGradually with targets tw would adjust the
\* yield token of slot k: a deposit or a withdrawal, the other being zero.
Adjustment(tw, k) ==
    LET adj == calcAdjustmentAmounts(S, getPoolHoldings(S), getUnderlyingBalances(S), tw, getOraclePrices(S))
    IN adj.depositAmounts[k] + adj.withdrawAmounts[k]

\* The value of `amount` of the underlying asset of yield slot k.
WorthOf(k, amount) ==
    IF underlyingIndexes[k] = numeraireAssetIndex THEN amount
    ELSE (amount * getOraclePrices(S)[underlyingIndexes[k]]) \div ONE

\* The wrapper of slot k has the same assets and the same shares outstanding
\* in w as now.
WrapperUntouched(w, k) ==
    /\ w.yAssets[k] = yAssets[k]
    /\ \A h \in Holders : w.bal[h][k] = bal[h][k]

BrokenWrapper(k) ==
    {pause(S, k), setMaxDepositAmount(S, k, 0, TRUE), setMaxWithdrawalAmount(S, k, 0, TRUE)}

\* The wrapper of slot k answers maxDeposit, respectively maxWithdraw, with a
\* revert or with zero.
NoDepositCapacity(w, k) ==
    w.paused[k] \/ (w.useMaxDepositAmount[k] /\ w.maxDepositAmount[k] = 0)

NoWithdrawCapacity(w, k) ==
    w.paused[k] \/ (w.useMaxWithdrawalAmount[k] /\ w.maxWithdrawalAmount[k] = 0)

WrapperErrors == {"Vault is paused", "ERC4626: deposit more than max", "ERC4626: withdraw more than max"}

WantedDeposits == {[k \in YieldSlots |-> a] : a \in {0, 5, 40, 98, 99, 150}}
BalancesAtHand == {<<0, 0>>, <<0, 10>>, <<10, 0>>}

\* C21: the amount of a pool token that calcNecessaryAmounts takes out of the
\* pool is at most poolHoldings * (poolWeight - MIN_WEIGHT) / poolWeight, and
\* the weight of the token scaled to the holdings left, as adjustPoolWeights
\* computes it, is at least MIN_WEIGHT.
C21_NecessaryAmountsKeepMinWeight ==
    (initialized /\ calcNecessaryAmountsErr(S) = "none") =>
        \A dep \in WantedDeposits, b \in BalancesAtHand, i \in PoolSlots :
            LET holdings == getPoolHoldings(S)
                weights == poolGetNormalizedWeights(S)
                taken == calcNecessaryAmounts(S, holdings, dep, b)[i]
            IN /\ taken <= (holdings[i] * (weights[i] - MIN_WEIGHT)) \div weights[i]
               /\ taken <= holdings[i]
               /\ holdings[i] > 0 =>
                     (weights[i] * (holdings[i] - taken)) \div holdings[i] >= MIN_WEIGHT

\* A vault in which a deposit of 150 is wanted for the yield token and only
\* the available part of the pool's holdings is taken.
C21_Witness ==
    /\ Called("updateWeightsGradually") /\ lastCall.event[numPoolTokens + 1] > 0
    /\ initialized /\ calcNecessaryAmountsErr(S) = "none"
    /\ \E k \in YieldSlots :
          LET i == underlyingIndexes[k]
              taken == calcNecessaryAmounts(S, getPoolHoldings(S), [y \in YieldSlots |-> 150], <<0, 0>>)[i]
          IN /\ taken > 0
             /\ taken < 150
             /\ taken < getPoolHoldings(S)[i]
             /\ taken = (getPoolHoldings(S)[i] * (poolGetNormalizedWeights(S)[i] - MIN_WEIGHT)) \div poolGetNormalizedWeights(S)[i]

\* --------------------------------------------------------------------- C22
\* The pool's balances have changed in the current block.
ChangedInCurrentBlock == lastChangeBlock = now

\* C22: when the pool's last-change block is the current block,
\* depositIfBalanceUnchanged, depositRiskingArbitrageIfBalanceUnchanged and
\* withdrawIfBalanceUnchanged succeed for no caller and no amounts, and an
\* owner's call on an initialized, not finalized vault reverts with
\* Mammon__BalanceChangedInCurrentBlock.
C22_GuardedCallsRevertInChangedBlock ==
    ChangedInCurrentBlock =>
        \A c \in Addrs, a \in MoveAmounts :
            LET guarded == {deposit(S, c, a, FALSE, TRUE), deposit(S, c, a, TRUE, TRUE),
                            withdraw(S, c, a, TRUE)}
            IN \A r \in guarded :
                  /\ ~Ok(r)
                  /\ (c = owner /\ initialized /\ ~finalized) =>
                        r.err = "Mammon__BalanceChangedInCurrentBlock"

\* The owner has just withdrawn, so the pool's balances changed in this
\* block; the same withdrawal without the guard would succeed again.
C22_Witness ==
    /\ Called("withdraw") /\ ChangedInCurrentBlock
    /\ initialized /\ ~finalized
    /\ \E a \in MoveAmounts :
          /\ Ok(withdraw(S, owner, a, FALSE))
          /\ withdraw(S, owner, a, TRUE).err = "Mammon__BalanceChangedInCurrentBlock"

\* --------------------------------------------------------------------- C23
\* The results of the value-moving entry points that carry the nonReentrant
\* modifier, called on the state m.
LockedCalls(m) ==
    {deposit(m, c, a, risking, u) :
        c \in Addrs, a \in MoveAmounts, risking \in BOOLEAN, u \in BOOLEAN}
    \cup {withdraw(m, c, a, u) : c \in Addrs, a \in MoveAmounts, u \in BOOLEAN}
    \cup {finalize(m, c) : c \in Addrs}
    \cup {updateWeightsGradually(m, c, tw, m.now, e) :
            c \in Addrs, tw \in TargetWeights, e \in EndTimes}
    \cup {claimGuardianFees(m, c) : c \in Addrs}

\* The results of every value-moving entry point called on the state m.
ValueMovingCalls(m) ==
    LockedCalls(m)
    \cup {initialDeposit(m, c, a, tw) :
            c \in Addrs, a \in DepositAmounts, tw \in TargetWeights}

\* The states a callee can see while a value-moving entry point that holds
\* the lock is running: the lock is taken, the fields are between their
\* values before and after the call.
DuringLockedCalls ==
    UNION {{entered(S), entered(r)} : r \in {x \in LockedCalls(S) : Ok(x)}}

\* The states a callee can see while initialDeposit is running.
DuringInitialDeposits ==
    UNION {duringInitialDeposit(S, c, a, tw) :
              c \in Addrs, a \in DepositAmounts, tw \in TargetWeights}

\* C23: while a value-moving entry point (a deposit or withdraw variant,
\* initialDeposit, finalize, updateWeightsGradually, claimGuardianFees) is
\* running, no call of any of them from inside its external calls succeeds.
C23_NoValueMovingCallIsReentered ==
    \A m \in DuringLockedCalls \cup DuringInitialDeposits :
        \A r \in ValueMovingCalls(m) : ~Ok(r)

\* --------------------------------------------------------------------- C24
\* The holdings a view call returns in state m are those before or those
\* after the operation that takes the vault from `before` to `after`.
SeesWholeState(m, before, after) ==
    /\ ~getHoldingsReverts(m)
    /\ getHoldings(m) \in {getHoldings(before), getHoldings(after)}

\* C24: getHoldings() called from inside an external call of a guarded
\* operation (here a deposit variant or claimGuardianFees) returns the
\* holdings before the operation started or those after it completes.
C24_ViewsSeeNoPartialState ==
    /\ \A c \in Addrs, a \in MoveAmounts, risking \in BOOLEAN, u \in BOOLEAN :
          \A m \in duringDeposit(S, c, a, risking, u) :
              SeesWholeState(m, S, deposit(S, c, a, risking, u))
    /\ \A c \in Addrs :
          \A m \in duringClaimGuardianFees(S, c) :
              SeesWholeState(m, S, claimGuardianFees(S, c))

\* --------------------------------------------------------------------- C25
\* What the ownership functions do when called in the state w.
OwnershipCallsBehave(w) ==
    /\ \A c \in Addrs : ~Ok(renounceOwnership(w, c))
    /\ \A c \in Addrs, n \in Addrs \cup {ZERO_ADDRESS} :
          LET r == transferOwnership(w, c, n)
          IN /\ Ok(r) <=> (c = w.owner /\ n # ZERO_ADDRESS)
             /\ Ok(r) => (r.owner = w.owner /\ r.pendingOwner = n)
    /\ \A c \in Addrs :
          LET r == cancelOwnershipTransfer(w, c)
          IN Ok(r) => (r.owner = w.owner /\ r.pendingOwner = ZERO_ADDRESS)
    /\ \A c \in Addrs :
          LET r == acceptOwnership(w, c)
          IN /\ Ok(r) <=> c = w.pendingOwner
             /\ Ok(r) => (r.owner = c /\ r.pendingOwner = ZERO_ADDRESS)

\* The vault after the owner has offered the ownership to n.
Offered(w, n) == transferOwnership(w, w.owner, n)

\* The owner changes in this step.
OwnerChanges == owner' # owner

\* The step is a successful acceptOwnership of the pending owner.
AcceptedByPendingOwner ==
    /\ lastCall'.op = "acceptOwnership"
    /\ pendingOwner # ZERO_ADDRESS
    /\ lastCall'.caller = pendingOwner
    /\ owner' = pendingOwner
    /\ pendingOwner' = ZERO_ADDRESS

\* C25: the owner changes only by an acceptOwnership of the address that
\* transferOwnership offered last and that has not been cancelled since;
\* transferOwnership and cancelOwnershipTransfer leave the owner alone,
\* acceptOwnership clears the pending owner, renounceOwnership always
\* reverts, and the owner is never the zero address.
C25_OwnerChangesOnlyByAcceptance ==
    /\ [](/\ owner # ZERO_ADDRESS
          /\ OwnershipCallsBehave(S)
          /\ \A n1 \in Addrs, n2 \in Addrs :
                /\ OwnershipCallsBehave(Offered(S, n1))
                /\ OwnershipCallsBehave(Offered(Offered(S, n1), n2))
                /\ \A c \in Addrs :
                      ~Ok(acceptOwnership(cancelOwnershipTransfer(Offered(S, n1), owner), c)))
    /\ [][OwnerChanges => AcceptedByPendingOwner]_vars

\* The address the owner offered the vault to has accepted it.
C25_Witness ==
    /\ Called("acceptOwnership")
    /\ owner = lastCall.caller
    /\ owner # "owner"
    /\ pendingOwner = ZERO_ADDRESS

\* --------------------------------------------------------------------- C26
\* C26: in every reachable state the guardian is not the zero address and is
\* not the owner.
C26_GuardianIsNeitherZeroNorOwner ==
    /\ guardian # ZERO_ADDRESS
    /\ guardian # owner

\* --------------------------------------------------------------------- C27
\* Amounts the owner asks to withdraw: some within the holdings, some above.
WithdrawRequests == MoveAmounts \cup {<<96, 0, 0>>, <<0, 151, 0>>, <<0, 0, 58>>}

\* What checkWithdrawAmount lets the owner take of slot k in state w: the
\* holdings net of the outstanding fees and, for a yield slot that is not
\* withdrawable, their worth in assets bounded by the wrapper's maxWithdraw.
Available(w, k) ==
    IF k \in PoolSlots \/ isWithdrawable[k] THEN getHoldings(w)[k]
    ELSE Min(convertToAssets(w, k, getHoldings(w)[k]), maxWithdraw(w, k, Vault))

\* A withdrawal of the owner gets as far as checkWithdrawAmount, which
\* examines the state w1 after the fees are locked.
ReachesWithdrawCheck(w1, ifUnchanged) ==
    /\ initialized /\ ~finalized
    /\ ~(ifUnchanged /\ lastChangeBlock = now)
    /\ Ok(w1) /\ ~getHoldingsReverts(w1)
    /\ \A k \in YieldSlots : maxWithdrawErr(w1, k) = "none"

\* C27: withdraw and withdrawIfBalanceUnchanged revert with
\* Mammon__AmountExceedAvailable when the amount asked of a slot is above
\* what is available of it net of the guardian fees; after a successful
\* withdrawal the vault contract still holds the tokens backing the fees.
C27_WithdrawalLeavesFeeBacking ==
    \A a \in WithdrawRequests, u \in BOOLEAN :
        LET r == withdraw(S, owner, a, u)
            w1 == lockGuardianFees(S, FALSE)
            exceeds == \E k \in Slots : a[k] > Available(w1, k)
        IN /\ (ReachesWithdrawCheck(w1, u) /\ exceeds) =>
                 r.err = "Mammon__AmountExceedAvailable"
           /\ Ok(r) =>
                 /\ ~exceeds
                 /\ \A i \in PoolSlots :
                       r.bal[Vault][i] - r.guardiansFeeTotal[i]
                           >= S.bal[Vault][i] - S.guardiansFeeTotal[i]
                 /\ \A k \in YieldSlots : r.bal[Vault][k] >= r.guardiansFeeTotal[k]

\* After a withdrawal fees are outstanding, and a request within the gross
\* balance of the yield token but above the net holdings is rejected.
C27_Witness ==
    /\ Called("withdraw")
    /\ \E k \in YieldSlots : guardiansFeeTotal[k] > 0
    /\ \E a \in WithdrawRequests :
          /\ \E k \in YieldSlots :
                /\ a[k] > Available(lockGuardianFees(S, FALSE), k)
                /\ a[k] <= convertToAssets(S, k, bal[Vault][k])
          /\ withdraw(S, owner, a, FALSE).err = "Mammon__AmountExceedAvailable"

\* --------------------------------------------------------------------- C28
\* Weights supplied to initialDeposit: the vectors of TargetWeights, one more
\* that sums to ONE and one that does not.
InitialWeights == TargetWeights \cup {<<3000, 7000, 0>>, <<5000, 4000, 0>>}

\* The vault with oracles that report no valid price.
WithoutOracles(w) == [w EXCEPT !.oracleAnswer = [i \in PoolSlots |-> 0]]

\* The claim as stated: after a successful initialDeposit the normalized
\* weights of the vault are the supplied weights.
C28_InitialWeightsAreSupplied ==
    \A a \in DepositAmounts, tw \in InitialWeights :
        LET r == initialDeposit(S, owner, a, tw)
        IN (Ok(r) /\ getNormalizedWeightsErr(r) = "none") =>
              getNormalizedWeights(r) = tw

\* C28: initialDeposit does not go through the price selection (it succeeds
\* or fails alike whatever the oracles report); on a vault that is not
\* initialized an owner's vector that does not sum to ONE is rejected with
\* Mammon__SumOfWeightIsNotOne; a successful initialDeposit does not depend
\* on the supplied weights: the pool keeps the weights of its construction,
\* and the normalized weights of the vault follow from the holdings.
C28_InitialWeightsAreOnlyValidated ==
    \A a \in DepositAmounts, tw \in InitialWeights :
        LET r == initialDeposit(S, owner, a, tw)
        IN /\ (~initialized /\ SeqSum(tw) # ONE) =>
                 r.err = "Mammon__SumOfWeightIsNotOne"
           /\ initialDeposit(WithoutOracles(S), owner, a, tw).err = r.err
           /\ Ok(r) =>
                 /\ SeqSum(tw) = ONE
                 /\ \A tw2 \in InitialWeights :
                       SeqSum(tw2) = ONE => initialDeposit(S, owner, a, tw2) = r
                 /\ poolGetNormalizedWeights(r) = poolGetNormalizedWeights(S)
                 /\ getPoolHoldings(r) = [i \in PoolSlots |-> a[i]]

\* The vault was initialized with some of the yield token, so its normalized
\* weights are none of the vectors that initialDeposit accepts here.
C28_Witness ==
    /\ Called("initialDeposit")
    /\ getNormalizedWeightsErr(S) = "none"
    /\ getNormalizedWeights(S)[numPoolTokens + 1] > 0
    /\ \A tw \in InitialWeights : getNormalizedWeights(S) # tw

\* --------------------------------------------------------------------- C29
\* Swap fees a guardian may ask for, and delays after a successful call.
AskedSwapFees == {0, 49, 50, 100, 150, 151, 200, 9501}
DelaysAfterSetSwapFee == {0, 59, 60, 500}

\* The vault w, dt seconds later.
Later(w, dt) == [w EXCEPT !.now = @ + dt]

AbsDiff(a, b) == IF a > b THEN a - b ELSE b - a

\* What setSwapFee does when the guardian calls it in the state w.
SetSwapFeeBehaves(w) ==
    \A f \in AskedSwapFees :
        LET r == setSwapFee(w, w.guardian, f)
        IN /\ Ok(r) =>
                 /\ w.now >= w.lastSwapFeeCheckpoint + SWAP_FEE_COOLDOWN_PERIOD
                 /\ AbsDiff(r.swapFee, w.swapFee) <= MAXIMUM_SWAP_FEE_PERCENT_CHANGE
                 /\ r.swapFee = f
                 /\ r.lastSwapFeeCheckpoint = w.now
           /\ ~Ok(r) =>
                 /\ r.lastSwapFeeCheckpoint = w.lastSwapFeeCheckpoint
                 /\ r.swapFee = w.swapFee

\* The step is a successful setSwapFee.
SetSwapFeeStep == nCalls' = nCalls + 1 /\ lastCall'.op = "setSwapFee"

\* C29: a successful setSwapFee comes at least SWAP_FEE_COOLDOWN_PERIOD
\* after the one before it and moves the pool's swap fee by at most
\* MAXIMUM_SWAP_FEE_PERCENT_CHANGE; a rejected call leaves the cooldown as
\* it was, and nothing but a successful setSwapFee restarts it.
C29_SwapFeeCooldownAndStep ==
    /\ [](/\ SetSwapFeeBehaves(S)
          /\ \A f \in AskedSwapFees :
                LET r == setSwapFee(S, guardian, f)
                IN Ok(r) =>
                      \A dt \in DelaysAfterSetSwapFee :
                          /\ SetSwapFeeBehaves(Later(r, dt))
                          /\ dt < SWAP_FEE_COOLDOWN_PERIOD =>
                                \A f2 \in AskedSwapFees :
                                    setSwapFee(Later(r, dt), guardian, f2).err
                                        = "Mammon__CannotSetSwapFeeBeforeCooldown")
    /\ [][/\ SetSwapFeeStep =>
                /\ now >= lastSwapFeeCheckpoint + SWAP_FEE_COOLDOWN_PERIOD
                /\ lastSwapFeeCheckpoint' = now
                /\ AbsDiff(swapFee', swapFee) <= MAXIMUM_SWAP_FEE_PERCENT_CHANGE
          /\ ~SetSwapFeeStep =>
                /\ lastSwapFeeCheckpoint' = lastSwapFeeCheckpoint
                /\ swapFee' = swapFee]_vars

\* The guardian has raised the swap fee by the largest step; a second call
\* would be accepted a cooldown later and not before.
C29_Witness ==
    /\ Called("setSwapFee")
    /\ swapFee = 100 + MAXIMUM_SWAP_FEE_PERCENT_CHANGE
    /\ lastSwapFeeCheckpoint = now
    /\ ~Ok(setSwapFee(Later(S, 59), guardian, 200))
    /\ Ok(setSwapFee(Later(S, 60), guardian, 200))

\* --------------------------------------------------------------------- C30
\* C30: in GuardianWhitelist, after any calls of addGuardian and
\* removeGuardian, isGuardian(a) holds exactly for the addresses added (at
\* construction or by addGuardian) and not removed since; getGuardians()
\* lists each of them once and never the zero address; adding a listed
\* address reverts with Mammon__AddressIsAlreadyGuardian and removing an
\* address that is not listed with Mammon__AddressIsNotGuardian.
C30_WhitelistIsTheSetOfAdded ==
    /\ \A a \in WhitelistAddrs \cup {ZERO_ADDRESS} : isGuardian(G, a) <=> a \in listed
    /\ {getGuardians(G)[i] : i \in 1..Len(getGuardians(G))} = listed
    /\ Len(getGuardians(G)) = Cardinality(listed)
    /\ ZERO_ADDRESS \notin listed
    /\ \A a \in WhitelistAddrs :
          /\ a \in listed =>
                addGuardian(G, WhitelistOwner, a).err = "Mammon__AddressIsAlreadyGuardian"
          /\ a \notin listed =>
                /\ removeGuardian(G, WhitelistOwner, a).err = "Mammon__AddressIsNotGuardian"
                /\ Ok(addGuardian(G, WhitelistOwner, a))
    /\ ~Ok(addGuardian(G, WhitelistOwner, ZERO_ADDRESS))
    /\ removeGuardian(G, WhitelistOwner, ZERO_ADDRESS).err = "Mammon__AddressIsNotGuardian"

\* A guardian that was not the last of the list has been removed, and the
\* last one has taken its place.
C30_Witness ==
    /\ whitelistCall.op = "removeGuardian"
    /\ whitelistCall.guardian \notin listed
    /\ getGuardians(G) = <<"u2", "g2", "u1">>

\* --------------------------------------------------------------------- C31
\* C31: in a finalized vault trading on the pool is off, whoever has called
\* whatever since finalize.
C31_NoTradingAfterFinalize == finalized => ~swapEnabled

\* --------------------------------------------------------------------- C32
\* The address a has a ledger with a non-zero entry.
HasFees(a) == Len(guardiansFee[a]) > 0 /\ \E k \in Slots : guardiansFee[a][k] > 0

\* C32: in every reachable state, the states after finalize included, an
\* address with a non-zero ledger entry can call claimGuardianFees with
\* success, and the call pays it at least that entry of every slot.
C32_CreditedFeesStayClaimable ==
    \A a \in Addrs :
        HasFees(a) =>
            LET r == claimGuardianFees(S, a)
            IN /\ Ok(r)
               /\ \A k \in Slots : r.bal[a][k] >= bal[a][k] + guardiansFee[a][k]

\* --------------------------------------------------------------------- C33
\* The entry of slot k in the ledger of a, 0 when a has no ledger.
LedgerEntry(a, k) == IF Len(guardiansFee[a]) = 0 THEN 0 ELSE guardiansFee[a][k]

RECURSIVE LedgerSum(_, _)
LedgerSum(as, k) ==
    IF as = {} THEN 0
    ELSE LET a == CHOOSE x \in as : TRUE
         IN LedgerEntry(a, k) + LedgerSum(as \ {a}, k)

\* C33: for every slot, guardiansFeeTotal is the sum of the ledger entries
\* of all addresses.
C33_TotalIsSumOfLedgers ==
    \A k \in Slots : guardiansFeeTotal[k] = LedgerSum(Addrs, k)

\* A former guardian and the current one both have fees outstanding.
C33_Witness ==
    /\ \E a \in Addrs, b \in Addrs : a # b /\ HasFees(a) /\ HasFees(b)
    /\ \E k \in Slots : guardiansFeeTotal[k] > LedgerEntry(guardian, k)

\* --------------------------------------------------------------------- C34
\* C34: for every slot the vault contract's own balance of the token is at
\* least guardiansFeeTotal; no claim of an address with a ledger fails for
\* lack of tokens, and getHoldings does not underflow.
C34_FeesAreBacked ==
    /\ \A k \in Slots : bal[Vault][k] >= guardiansFeeTotal[k]
    /\ ~getHoldingsReverts(S)
    /\ \A a \in Addrs :
          claimGuardianFees(S, a).err # "ERC20: transfer amount exceeds balance"

\* --------------------------------------------------------------------- C35
\* The fee one accrual locks for slot k, with or without the guaranteed
\* top-up.
AccruedFee(lockGuaranteedFee, k) == calcFee(S, getHoldings(S)[k], getFeeIndex(S, lockGuaranteedFee))

\* C35: in every initialized, non-finalized state the fee one accrual locks
\* for a slot is at most the holdings of the slot, with and without the
\* guaranteed top-up, and a finalize by the owner succeeds and leaves the
\* pool empty.
C35_FeeWithinHoldingsAndFinalizeSucceeds ==
    (initialized /\ ~finalized /\ ~getHoldingsReverts(S)) =>
        /\ \A lockGuaranteedFee \in BOOLEAN : \A k \in Slots :
              AccruedFee(lockGuaranteedFee, k) <= getHoldings(S)[k]
        /\ LET r == finalize(S, owner)
           IN Ok(r) /\ r.finalized /\ r.poolBal = Zeros(numPoolTokens)

\* --------------------------------------------------------------------- C36
\* Withdrawals of pool tokens only.
PoolWithdrawals == {<<50, 0, 0>>, <<0, 50, 0>>, <<10, 10, 0>>}

\* The state w with the oracles enabled and every answer valid and fresh.
WithSoundOracles(w) == [w EXCEPT !.oraclesEnabled = TRUE, !.oracleAnswer = [i \in PoolSlots |-> IF i = numeraireAssetIndex THEN 0 ELSE oracleUnit], !.oracleUpdatedAt = [i \in PoolSlots |-> w.now]]

\* The oracles of the current state are disabled, stale or invalid.
OraclesUnsound == getOraclePricesErr(S) # "none" \/ checkOracleStatus(S, getOracleUpdatedAt(S)) # "none"

\* C36: a withdraw of pool-token amounts within the holdings succeeds
\* whatever the state of the oracles: if it succeeds with the oracles
\* enabled, valid and fresh, it succeeds in the current state as well.
C36_PoolWithdrawIgnoresOracles ==
    \A amounts \in PoolWithdrawals :
        (/\ \A i \in PoolSlots : amounts[i] <= getHoldings(S)[i]
         /\ Ok(withdraw(WithSoundOracles(S), owner, amounts, FALSE)))
            => Ok(withdraw(S, owner, amounts, FALSE))

\* --------------------------------------------------------------------- C37
\* The quotient getDeterminedPrices compares with maxOracleSpotDivergence:
\* the larger of the oracle and the spot price of slot i over the smaller.
Divergence(w, i) == LET o == getOraclePrices(w)[i] s == getSpotPrices(w, getPoolHoldings(w))[i] IN IF o > s THEN Div(o * ONE, s) ELSE Div(s * ONE, o)

\* C37: in the state a successful enableTradingWithOraclePrice leaves, the
\* spot price of every pool token is within maxOracleSpotDivergence of its
\* oracle price, and no deposit of the owner is refused for the divergence
\* of the two.
C37_SpotFollowsOracleAfterEnable ==
    Called("enableTradingWithOraclePrice") =>
        /\ \A i \in PoolSlots \ {numeraireAssetIndex} :
              Divergence(S, i) <= maxOracleSpotDivergence
        /\ \A amounts \in DepositAmounts :
              deposit(S, owner, amounts, FALSE, FALSE).err
                  # "Mammon__OracleSpotPriceDivergenceExceedsMax"

\* --------------------------------------------------------------------- C38
\* Target vectors that pass checkWeights and leave little or nothing to the
\* underlying token of the yield slot.
ResidualTargets == TargetWeights \cup {<<9000, 1000, 0>>, <<8000, 1000, 1000>>}

\* The weight adjustPoolWeights subtracts from the target of pool slot i: the
\* current weights of the yield slots that wrap it.
CurrentYieldWeight(w, i) == SeqSum([n \in 1..numYieldTokens |-> IF underlyingIndexes[numPoolTokens + n] = i THEN getNormalizedWeights(w)[numPoolTokens + n] ELSE 0])

\* The state in which updateWeightsGradually(tw) calls adjustPoolWeights.
AfterYieldAdjustment(tw) == adjustYieldTokens(S, getPoolHoldings(S), tw)

\* updateWeightsGradually(tw) gets as far as adjustPoolWeights.
ReachesPoolWeights(tw) ==
    /\ initialized /\ ~finalized
    /\ checkWeights(tw) = "none"
    /\ Ok(AfterYieldAdjustment(tw))
    /\ getNormalizedWeightsErr(AfterYieldAdjustment(tw)) = "none"

\* C38: whenever updateWeightsGradually reaches adjustPoolWeights with a
\* target vector that sums to ONE, the residual target weight of every pool
\* token is non-negative, and adjustPoolWeights does not abort on an
\* arithmetic underflow.
C38_ResidualPoolWeightIsNonNegative ==
    \A tw \in ResidualTargets :
        ReachesPoolWeights(tw) =>
            /\ \A i \in PoolSlots :
                  getUnderlyingTotalWeights(tw)[i]
                      >= CurrentYieldWeight(AfterYieldAdjustment(tw), i)
            /\ adjustPoolWeights(AfterYieldAdjustment(tw), getPoolHoldings(S), tw).w.err
                  # "Panic(0x11)"

\* --------------------------------------------------------------------- C39
\* The target balance of yield slot k computed from the slot's own target
\* weight: value * targetWeights[k] / price of its underlying token.
OwnTargetBalance(in, k) == Div(in.value * in.targetWeights[k], in.oraclePrices[TwoYieldIndexes[k]])

\* C39: after calcAdjustmentAmounts, the amounts of every yield slot follow
\* from the slot's own target weight: a deposit of the target balance less
\* the current underlying balance or a withdrawal of the excess, and for a
\* slot with target weight 0 no deposit and a withdrawal of its whole
\* underlying balance.
C39_TargetBalanceFromOwnWeight ==
    adjustment.called =>
        \A k \in TwoYieldSlots :
            LET in == adjustment.input
                tb == OwnTargetBalance(in, k)
                ub == in.underlyingBalances[k]
            IN /\ adjustment.result.depositAmounts[k] = (IF tb > ub THEN tb - ub ELSE 0)
               /\ adjustment.result.withdrawAmounts[k] = (IF tb > ub THEN 0 ELSE ub - tb)
               /\ in.targetWeights[k] = 0 =>
                     /\ adjustment.result.depositAmounts[k] = 0
                     /\ adjustment.result.withdrawAmounts[k] = ub

\* --------------------------------------------------------------------- C40
\* The point of adjustYieldTokens(tw) at which the loop of
\* depositToYieldTokens starts: the state after the withdrawals from the
\* wrappers and from the pool, the deposit deltas, and the idle balances of
\* the pool tokens in the vault contract.
YieldDepositStage(tw) ==
    LET poolHoldings == getPoolHoldings(S)
        oraclePrices == getOraclePrices(S)
        adj == calcAdjustmentAmounts(S, poolHoldings, getUnderlyingBalances(S), tw, oraclePrices)
        w1 == withdrawFromYieldTokens(S, adj.withdrawAmounts, oraclePrices, numPoolTokens + 1)
        balances == [i \in PoolSlots |-> w1.bal[Vault][i] - bal[Vault][i]]
        necessaryAmounts == calcNecessaryAmounts(w1, poolHoldings, adj.depositAmounts, balances)
    IN [w |-> withdrawFromPool(w1, necessaryAmounts),
        depositAmounts |-> adj.depositAmounts,
        balances |-> [i \in PoolSlots |-> balances[i] + necessaryAmounts[i]],
        oraclePrices |-> oraclePrices]

\* What the wrapper of yield slot k should receive at that point: the
\* deposit delta bounded by the idle balance of the slot's underlying token
\* and, in depositUnderlyingAsset, by the wrapper's maxDeposit.
DueDeposit(st, k) ==
    LET u == underlyingIndexes[k]
    IN IF st.depositAmounts[k] > 0 /\ st.balances[u] > 0
       THEN depositedAmount(st.w, k, Min(st.depositAmounts[k], st.balances[u]), st.oraclePrices[u], u)
       ELSE 0

\* C40: in every rebalancing that completes, the assets the wrapper of a
\* yield slot receives are the minimum of the slot's deposit delta, the idle
\* balance of the slot's underlying token and the wrapper's maxDeposit.
C40_DepositIsMinOfDeltaIdleAndCap ==
    \A tw \in TargetWeights :
        (initialized /\ ~finalized /\ Ok(adjustYieldTokens(S, getPoolHoldings(S), tw))) =>
            \A k \in YieldSlots :
                adjustYieldTokens(S, getPoolHoldings(S), tw).yAssets[k]
                        - YieldDepositStage(tw).w.yAssets[k]
                    = DueDeposit(YieldDepositStage(tw), k)

====
